---- MODULE Spec2Model ----
(***************************************************************************)
(* Voxel world core of game_client: chunk storage, terrain column fill,    *)
(* DDA raycasting, block targeting and break/place interaction, and the    *)
(* chunk loading policy, as state machines over the Bevy schedule.         *)
(*                                                                         *)
(* Numbers.  f32/f64 values are modelled as exact rationals.  A Vec3 is a  *)
(* record [x, y, z, d] standing for (x/d, y/d, z/d) with d > 0.  A ray     *)
(* direction is an integer vector D; direction.normalize() is D/|D|, and   *)
(* every quantity that carries the factor |D| keeps it symbolic (only      *)
(* |D|^2 = len2 is ever needed), so the traversal is exact.                *)
(***************************************************************************)
EXTENDS Integers, Sequences, FiniteSets, TLC

\* ------------------------------------------------------------------------
\* Program constants
\* ------------------------------------------------------------------------

\* chunk.rs:9  pub const CHUNK_SIZE: usize = 16
CHUNK_SIZE == 16

\* raycast.rs:5  pub const MAX_INTERACTION_DISTANCE: f32 = 5.0
MAX_INTERACTION_DISTANCE == 5

\* raycast.rs:72  for _ in 0..100
MAX_ITERATIONS == 100

\* main.rs:31  render_distance: 3
RENDER_DISTANCE == 3

\* main.rs:246  for x in -2..=2 (setup's initial square)
SETUP_RADIUS == 2

\* usize arithmetic wraps modulo 2^64 on the build target.  TLC's integers
\* are 32 bits wide, so the model wraps at 2^30: the only operations the
\* code applies to a wrapped value are ">= CHUNK_SIZE", "== 0" and
\* is_valid, and these cannot tell 2^30 - 1 from 2^64 - 1.
USIZE_MODULUS == 2 ^ 30

CHUNK_VOLUME == CHUNK_SIZE * CHUNK_SIZE * CHUNK_SIZE

\* ------------------------------------------------------------------------
\* block.rs
\* ------------------------------------------------------------------------

BlockType == {"Air", "Grass", "Dirt", "Stone", "Sand", "Water"}

is_solid(b) == ~(b \in {"Air", "Water"})

\* Variant of is_transparent: Water is opaque
is_transparent_air_only(b) == b = "Air"

is_transparent(b) == b \in {"Air", "Water"}

\* ------------------------------------------------------------------------
\* Numeric helpers (Rust semantics)
\* ------------------------------------------------------------------------

Abs(i) == IF i < 0 THEN -i ELSE i

\* f32::floor / f32::ceil of the rational n/d, d > 0
Floor(n, d) == n \div d

Ceil(n, d) == -((-n) \div d)

\* f32::signum: 1.0 for +0.0 and positive numbers, -1.0 for negatives
Signum(i) == IF i < 0 THEN -1 ELSE 1

\* Rust's % on i32 truncates toward zero
RustRem(a, b) == IF a >= 0 THEN a % b ELSE -((-a) % b)

\* "i as usize" for an i32 i: two's-complement wrap
AsUsize(i) == i % USIZE_MODULUS

\* "f as usize" for a float: truncation, saturating at 0 for negatives
FloatAsUsize(n, d) == IF n < 0 THEN 0 ELSE n \div d

\* ------------------------------------------------------------------------
\* chunk.rs: coordinates
\* ------------------------------------------------------------------------

Vec3(x, y, z, d) == [x |-> x, y |-> y, z |-> z, d |-> d]

IVec(x, y, z) == [x |-> x, y |-> y, z |-> z]

ChunkPos(x, y, z) == [x |-> x, y |-> y, z |-> z]

BlockPos(x, y, z) == [x |-> x, y |-> y, z |-> z]

\* Variant of from_world_pos: the quotient is truncated toward zero
from_world_pos_truncating(pos) ==
    ChunkPos(Signum(pos.x) * (Abs(pos.x) \div (pos.d * CHUNK_SIZE)),
             Signum(pos.y) * (Abs(pos.y) \div (pos.d * CHUNK_SIZE)),
             Signum(pos.z) * (Abs(pos.z) \div (pos.d * CHUNK_SIZE)))

\* ChunkPos::from_world_pos
from_world_pos(pos) ==
    ChunkPos(Floor(pos.x, pos.d * CHUNK_SIZE),
             Floor(pos.y, pos.d * CHUNK_SIZE),
             Floor(pos.z, pos.d * CHUNK_SIZE))

\* ChunkPos::to_world_pos
to_world_pos(cp) ==
    Vec3(cp.x * CHUNK_SIZE, cp.y * CHUNK_SIZE, cp.z * CHUNK_SIZE, 1)

\* Variant of to_index: the row and the layer have the same stride
to_index_flat(p) == p.y * CHUNK_SIZE + p.z * CHUNK_SIZE + p.x

\* BlockPos::to_index
to_index(p) == p.y * CHUNK_SIZE * CHUNK_SIZE + p.z * CHUNK_SIZE + p.x

\* Chunk::get_index_static
get_index_static(x, y, z) == y * CHUNK_SIZE * CHUNK_SIZE + z * CHUNK_SIZE + x

\* BlockPos::is_valid
is_valid(p) == p.x < CHUNK_SIZE /\ p.y < CHUNK_SIZE /\ p.z < CHUNK_SIZE

\* The local position stored at a flat index (inverse of to_index)
PosOfIndex(i) ==
    BlockPos(i % CHUNK_SIZE, i \div (CHUNK_SIZE * CHUNK_SIZE),
             (i \div CHUNK_SIZE) % CHUNK_SIZE)

\* ------------------------------------------------------------------------
\* chunk.rs: Chunk
\* ------------------------------------------------------------------------

\* Chunk::new
NewChunk(position) ==
    [position |-> position,
     blocks   |-> [i \in 0 .. CHUNK_VOLUME - 1 |-> "Air"],
     dirty    |-> TRUE]

\* Variant of get_block: a position that is not valid reads as Stone
get_block_solid_outside(chunk, pos) ==
    IF is_valid(pos) THEN chunk.blocks[to_index(pos)] ELSE "Stone"

\* Chunk::get_block
get_block(chunk, pos) ==
    IF is_valid(pos) THEN chunk.blocks[to_index(pos)] ELSE "Air"

\* Chunk::set_block
set_block(chunk, pos, block_type) ==
    IF is_valid(pos)
    THEN [chunk EXCEPT !.blocks[to_index(pos)] = block_type, !.dirty = TRUE]
    ELSE chunk

\* chunk.rs:139-140, 148-149  the indices at which get_block and set_block
\* index the blocks array
get_block_indexed(pos) == IF is_valid(pos) THEN {to_index(pos)} ELSE {}

set_block_indexed(pos) == IF is_valid(pos) THEN {to_index(pos)} ELSE {}

\* ------------------------------------------------------------------------
\* raycast.rs: raycast_block
\* ------------------------------------------------------------------------

Axes == {"x", "y", "z"}

Comp(v, a) == CASE a = "x" -> v.x [] a = "y" -> v.y [] a = "z" -> v.z

\* |direction|^2 of the direction as given (before normalize())
Len2(direction) ==
    direction.x * direction.x + direction.y * direction.y
        + direction.z * direction.z

\* Option<RaycastHit>::None
NoHit == [some |-> FALSE]

\* Some(RaycastHit { chunk_pos, block_pos, normal, distance }).  distance is
\* the record [n, den]: the real distance is |D| * n / den, D the direction
\* as given (|D| = 1 for an axis-aligned unit vector).
SomeHit(chunk_pos, block_pos, normal, distance) ==
    [some |-> TRUE, chunk_pos |-> chunk_pos, block_pos |-> block_pos,
     normal |-> normal, distance |-> distance]

\* raycast.rs:45-49  step_dir
StepDir(direction) ==
    IVec(Signum(direction.x), Signum(direction.y), Signum(direction.z))

\* raycast.rs:52-56  next_boundary on one axis, as a numerator over d
NextBoundary(n, d, sd) ==
    IF sd > 0 THEN Ceil(n, d) * d - n ELSE n - Floor(n, d) * d

\* raycast.rs:59-63  t_max on one axis: INFINITY if the component is zero,
\* else next_boundary * step_size = |D| * n / (d * |D_a|); only n is stored
InitTMaxAxis(origin, direction, a) ==
    [inf |-> Comp(direction, a) = 0,
     n   |-> NextBoundary(Comp(origin, a), origin.d,
                          Comp(StepDir(direction), a))]

InitTMax(origin, direction) ==
    [a \in Axes |-> InitTMaxAxis(origin, direction, a)]

\* t_max.a < t_max.b on f32 (INFINITY < INFINITY is false)
TLess(t_max, direction, a, b) ==
    IF t_max[a].inf THEN FALSE
    ELSE IF t_max[b].inf THEN TRUE
    ELSE t_max[a].n * Abs(Comp(direction, b))
            < t_max[b].n * Abs(Comp(direction, a))

\* raycast.rs:109-127  the axis to step along
NextAxis(t_max, direction) ==
    IF TLess(t_max, direction, "x", "y") /\ TLess(t_max, direction, "x", "z")
    THEN "x"
    ELSE IF TLess(t_max, direction, "y", "z") THEN "y" ELSE "z"

\* Variant of TooFar: the length of the direction is left out, as if the
\* direction were not normalised
TooFar_unnormalised(distance, direction) ==
    distance.n * distance.n
        > MAX_INTERACTION_DISTANCE * MAX_INTERACTION_DISTANCE
            * distance.den * distance.den

\* raycast.rs:74  distance > MAX_INTERACTION_DISTANCE
TooFar(distance, direction) ==
    Len2(direction) * distance.n * distance.n
        > MAX_INTERACTION_DISTANCE * MAX_INTERACTION_DISTANCE
            * distance.den * distance.den

\* Variant of StepDistance: the distance is read after t_max.a is advanced
StepDistance_advanced(t_max, origin, direction, a) ==
    [n |-> t_max[a].n + origin.d, den |-> origin.d * Abs(Comp(direction, a))]

\* raycast.rs:112,118,124  distance = t_max.a (before t_max.a is advanced)
StepDistance(t_max, origin, direction, a) ==
    [n |-> t_max[a].n, den |-> origin.d * Abs(Comp(direction, a))]

\* Variant of StepNormal: the normal points along the step, not against it
StepNormal_along(direction, a) ==
    IVec(IF a = "x" THEN Signum(direction.x) ELSE 0,
         IF a = "y" THEN Signum(direction.y) ELSE 0,
         IF a = "z" THEN Signum(direction.z) ELSE 0)

\* raycast.rs:114,120,126  normal = -step_dir on the stepped axis
StepNormal(direction, a) ==
    IVec(IF a = "x" THEN -Signum(direction.x) ELSE 0,
         IF a = "y" THEN -Signum(direction.y) ELSE 0,
         IF a = "z" THEN -Signum(direction.z) ELSE 0)

\* raycast.rs:111,117,123  current_pos.a += step_dir.a
StepPos(current_pos, direction, a) ==
    Vec3(current_pos.x + (IF a = "x" THEN Signum(direction.x) * current_pos.d ELSE 0),
         current_pos.y + (IF a = "y" THEN Signum(direction.y) * current_pos.d ELSE 0),
         current_pos.z + (IF a = "z" THEN Signum(direction.z) * current_pos.d ELSE 0),
         current_pos.d)

\* raycast.rs:113,119,125  t_max.a += step_size.a
StepTMax(t_max, origin, a) ==
    [t_max EXCEPT ![a].n = @ + origin.d]

\* raycast.rs:79-81  the world cell of current_pos
WorldCell(current_pos) ==
    IVec(Floor(current_pos.x, current_pos.d),
         Floor(current_pos.y, current_pos.d),
         Floor(current_pos.z, current_pos.d))

\* raycast.rs:84-87  chunk of a world cell
CellChunk(block) ==
    ChunkPos(Floor(block.x, CHUNK_SIZE), Floor(block.y, CHUNK_SIZE),
             Floor(block.z, CHUNK_SIZE))

\* Variant of CellLocalAxis: the remainder is taken once, without the
\* shift to the non-negative range
CellLocalAxis_truncating(b) ==
    AsUsize(RustRem(b, CHUNK_SIZE))

\* raycast.rs:90-93  local position of a world cell
CellLocalAxis(b) ==
    AsUsize(RustRem(RustRem(b, CHUNK_SIZE) + CHUNK_SIZE, CHUNK_SIZE))

CellLocal(block) ==
    BlockPos(CellLocalAxis(block.x), CellLocalAxis(block.y),
             CellLocalAxis(block.z))

\* raycast.rs:96-98  the cell is in a listed chunk and is not Air
CellIsHit(chunks, block) ==
    /\ CellChunk(block) \in DOMAIN chunks
    /\ get_block(chunks[CellChunk(block)], CellLocal(block)) # "Air"

\* raycast.rs:72-131  the loop.  examined is the sequence of world cells
\* looked up so far (instrumentation of the loop, not program state).
RECURSIVE RayLoop(_, _, _, _, _, _, _, _, _)
RayLoop(i, current_pos, t_max, distance, normal, examined, origin, direction, chunks) ==
    IF i >= MAX_ITERATIONS \/ TooFar(distance, direction)
    THEN [hit |-> NoHit, examined |-> examined]
    ELSE LET block == WorldCell(current_pos)
             seen  == Append(examined, block)
         IN  IF CellIsHit(chunks, block)
             THEN [hit |-> SomeHit(CellChunk(block), CellLocal(block),
                                   normal, distance),
                   examined |-> seen]
             ELSE LET a == NextAxis(t_max, direction)
                  IN  RayLoop(i + 1,
                              StepPos(current_pos, direction, a),
                              StepTMax(t_max, origin, a),
                              StepDistance(t_max, origin, direction, a),
                              StepNormal(direction, a),
                              seen, origin, direction, chunks)

\* raycast_block(origin, direction, chunks), direction # 0.  chunks is the
\* slice of (ChunkPos, &Chunk) pairs as a function on its positions.
raycast_block(origin, direction, chunks) ==
    RayLoop(0, origin, InitTMax(origin, direction), [n |-> 0, den |-> 1],
            IVec(0, 0, 0), << >>, origin, direction, chunks)

\* ------------------------------------------------------------------------
\* noise_gen.rs: TerrainGenerator
\* ------------------------------------------------------------------------

\* The Perlin fields of the external noise crate are not part of this
\* repository.  A generator is one of a small family of height/biome
\* fields; each agrees with Perlin noise at the lattice point (0, 0), where
\* the noise is 0, so get_height(0, 0) = 15.0 and get_biome_value(0, 0) = 0.5.
\*   "flat"  : height 15.0, biome 0.5 everywhere
\*   "slope" : height 15.0 - |x| / 2, biome 0.5 + x / 100
TerrainFields == {"flat", "slope"}

\* TerrainGenerator::get_height, in tenths
get_height(generator, x, z) ==
    IF generator = "flat" THEN 150 ELSE 150 - 5 * Abs(x)

\* TerrainGenerator::get_biome_value, in hundredths
get_biome_value(generator, x, z) ==
    IF generator = "flat" THEN 50 ELSE 50 + x

\* chunk.rs:111-127  the block of one cell of a column
ColumnBlock(height, biome_value, world_y) ==
    IF world_y > height THEN "Air"
    ELSE IF world_y = height
         THEN (IF biome_value > 60 THEN "Sand" ELSE "Grass")
         ELSE IF height > 3 /\ world_y > height - 3 THEN "Dirt"
              ELSE "Stone"

\* chunk.rs:94-127  the block generate_terrain computes for one local cell
TerrainBlock(generator, position, pos) ==
    LET world_pos == to_world_pos(position)
        world_x == world_pos.x + pos.x
        world_z == world_pos.z + pos.z
        height == FloatAsUsize(get_height(generator, world_x, world_z), 10)
        biome_value == get_biome_value(generator, world_x, world_z)
        world_y == FloatAsUsize(world_pos.y, world_pos.d) + pos.y
    IN  ColumnBlock(height, biome_value, world_y)

\* Chunk::generate_terrain: set_block on every local cell, then dirty = true
generate_terrain(chunk, generator) ==
    [chunk EXCEPT
        !.blocks = [i \in DOMAIN chunk.blocks |->
                       TerrainBlock(generator, chunk.position, PosOfIndex(i))],
        !.dirty = TRUE]

\* ------------------------------------------------------------------------
\* Test fixtures (raycast.rs:143-166, block_interaction.rs:273-284)
\* ------------------------------------------------------------------------

\* create_test_chunk: Chunk::new, then set_block((x, 0, z), Stone) for every
\* x, z in 0..CHUNK_SIZE
create_test_chunk(pos) ==
    LET c == NewChunk(pos)
    IN  [c EXCEPT !.blocks = [i \in DOMAIN c.blocks |->
                                 IF PosOfIndex(i).y = 0 THEN "Stone"
                                 ELSE c.blocks[i]],
                  !.dirty = TRUE]

Origin000 == ChunkPos(0, 0, 0)

TestChunk == create_test_chunk(Origin000)

\* ------------------------------------------------------------------------
\* Bounds of the model
\* ------------------------------------------------------------------------

\* ray origins of the raycast harness have y in 0 .. MaxOriginHalfY halves
MaxOriginHalfY == 14

\* ray directions of the raycast harness have components in -DirMax..DirMax
DirMax == 1

\* frames in which the host reports a mouse button press
MaxClicks == 2

\* world points of the coordinate harness have x in -MaxWorldHalf ..
\* MaxWorldHalf halves
MaxWorldHalf == 34

\* regions of the terrain harness have x in -MaxRegion .. MaxRegion
MaxRegion == 2

\* ------------------------------------------------------------------------
\* State
\* ------------------------------------------------------------------------

VARIABLES
    app,               \* which App was built: "main", "test", "raycast_test",
                       \* "load", "gate", "terrain"
    pending,           \* systems of the running schedule that have not run yet
    chunks,            \* ChunkManager.chunks: its key set (Entity ids elided)
    chunk_data,        \* ChunkManager.chunk_data: ChunkPos -> Chunk
    terrain_generator, \* ChunkManager.terrain_generator
    entities,          \* the World: chunk entities (by ChunkComponent.pos)
                       \* and the number of highlight entities
    commands,          \* Commands queued by the systems of this schedule run
    translation,       \* the camera/player Transform.translation
    forward,           \* the camera/player Transform.forward()
    cursor_state,      \* CursorState
    targeted_block,    \* TargetedBlock
    input,             \* the ButtonInput state block_interaction_system read
    clicks,            \* frames so far with a mouse button press
    cast,              \* raycast harness: the result of its raycast_block call
    last_load,         \* the camera chunk of the latest update_chunk_loading
                       \* call (instrumentation, not program state)
    probe              \* unit harnesses: the latest call, its arguments and
                       \* its result

vars == <<app, pending, chunks, chunk_data, terrain_generator, entities,
          commands, translation, forward, cursor_state, targeted_block,
          input, clicks, cast, last_load, probe>>

NotCast == [called |-> FALSE]

Casted(r) == [called |-> TRUE, hit |-> r.hit, examined |-> r.examined]

NotLoaded == [called |-> FALSE]

NoProbe == [op |-> "none"]

Loaded(camera_chunk_pos) ==
    [called |-> TRUE, camera_chunk_pos |-> camera_chunk_pos]

NoCommands ==
    [spawn |-> {}, despawn |-> {},
     spawn_highlight |-> FALSE, despawn_highlight |-> FALSE]

NoInput ==
    [read |-> FALSE, left |-> FALSE, right |-> FALSE,
     digit1 |-> FALSE, digit2 |-> FALSE, digit3 |-> FALSE]

\* main.rs:85-93 and block_interaction.rs:267: the Update systems.  The
\* tuples carry no ordering (.chain(), .before, .after), so the executor
\* may run the systems of one frame in any order.
UpdateSystems(a) ==
    IF a = "main"
    THEN {"camera_movement_system", "update_chunk_loading", "player_movement",
          "mouse_look", "toggle_cursor_lock", "block_targeting_system",
          "block_interaction_system"}
    ELSE IF a = "load"
         THEN {"update_chunk_loading"}
    ELSE IF a = "gate"
         THEN {"toggle_cursor_lock", "block_targeting_system",
               "block_interaction_system"}
         ELSE {"block_targeting_system", "block_interaction_system"}

\* ------------------------------------------------------------------------
\* The raycast harness: raycast.rs tests call raycast_block directly on the
\* chunk_data of create_test_chunk_manager
\* ------------------------------------------------------------------------

RayOrigins ==
    { Vec3(x, y, z, 2) : x \in {-1, 10, 11}, y \in 0 .. MaxOriginHalfY,
                          z \in {10, 11} }

RayDirections ==
    { IVec(x, y, z) : x \in -DirMax .. DirMax, y \in -DirMax .. DirMax,
                      z \in -DirMax .. DirMax } \ { IVec(0, 0, 0) }

InitRay ==
    /\ app = "raycast_test"
    /\ pending = {}
    /\ chunks = {}
    /\ chunk_data = (Origin000 :> TestChunk)
    /\ terrain_generator = "flat"
    /\ entities = [chunks |-> {}, highlights |-> 0]
    /\ commands = NoCommands
    /\ translation \in RayOrigins
    /\ forward \in RayDirections
    /\ cursor_state = [locked |-> FALSE]
    /\ targeted_block = [hit |-> NoHit, highlight_entity |-> FALSE]
    /\ input = NoInput
    /\ clicks = 0
    /\ cast = NotCast
    /\ last_load = NotLoaded
    /\ probe = NoProbe

\* let hit = raycast_block(origin, direction, &chunks_data)
test_raycast ==
    /\ app = "raycast_test"
    /\ ~cast.called
    /\ cast' = Casted(raycast_block(translation, forward, chunk_data))
    /\ UNCHANGED <<app, last_load, probe, pending, chunks, chunk_data, terrain_generator,
                   entities, commands, translation, forward, cursor_state,
                   targeted_block, input, clicks>>

NextRay == test_raycast

SpecRay == InitRay /\ [][NextRay]_vars

\* ------------------------------------------------------------------------
\* The coordinate harness: ChunkPos::from_world_pos and the raycaster's cell
\* arithmetic on world points on both sides of zero
\* ------------------------------------------------------------------------

WorldPoints ==
    { Vec3(x, y, z, 2) : x \in -MaxWorldHalf .. MaxWorldHalf,
                          y \in {-32, -1, 0, 31}, z \in {-33, 0, 32} }

InitPos ==
    /\ app = "raycast_test"
    /\ pending = {}
    /\ chunks = {}
    /\ chunk_data = (Origin000 :> TestChunk)
    /\ terrain_generator = "flat"
    /\ entities = [chunks |-> {}, highlights |-> 0]
    /\ commands = NoCommands
    /\ translation \in WorldPoints
    /\ forward \in { IVec(1, 0, 0), IVec(-1, -1, 0) }
    /\ cursor_state = [locked |-> FALSE]
    /\ targeted_block = [hit |-> NoHit, highlight_entity |-> FALSE]
    /\ input = NoInput
    /\ clicks = 0
    /\ cast = NotCast
    /\ last_load = NotLoaded
    /\ probe = NoProbe

\* let region = ChunkPos::from_world_pos(point)
test_from_world_pos ==
    /\ app = "raycast_test"
    /\ probe.op = "none"
    /\ probe' = [op |-> "from_world_pos", pos |-> translation,
                 result |-> from_world_pos(translation)]
    /\ UNCHANGED <<app, last_load, pending, chunks, chunk_data,
                   terrain_generator, entities, commands, translation, forward,
                   cursor_state, targeted_block, input, clicks, cast>>

NextPos ==
    \/ test_from_world_pos
    \/ test_raycast

SpecPos == InitPos /\ [][NextPos]_vars

\* ------------------------------------------------------------------------
\* chunk.rs: the mesh builder
\* ------------------------------------------------------------------------

\* chunk.rs:225  the directions in the order build_mesh tries them
DirectionOrder == <<"PosY", "NegY", "PosZ", "NegZ", "PosX", "NegX">>

\* Variant of should_render_face: a face on the chunk's boundary is not
\* rendered
should_render_face_interior(chunk, pos, direction) ==
    /\ get_block(chunk, pos) # "Air"
    /\ IF direction = "PosY" THEN pos.y < CHUNK_SIZE - 1
       ELSE IF direction = "NegY" THEN pos.y # 0
       ELSE IF direction = "PosZ" THEN pos.z < CHUNK_SIZE - 1
       ELSE IF direction = "NegZ" THEN pos.z # 0
       ELSE IF direction = "PosX" THEN pos.x < CHUNK_SIZE - 1
       ELSE pos.x # 0
    /\ LET neighbor ==
               get_block(chunk,
                   IF direction = "PosY" THEN BlockPos(pos.x, pos.y + 1, pos.z)
                   ELSE IF direction = "NegY"
                        THEN BlockPos(pos.x, pos.y - 1, pos.z)
                   ELSE IF direction = "PosZ"
                        THEN BlockPos(pos.x, pos.y, pos.z + 1)
                   ELSE IF direction = "NegZ"
                        THEN BlockPos(pos.x, pos.y, pos.z - 1)
                   ELSE IF direction = "PosX"
                        THEN BlockPos(pos.x + 1, pos.y, pos.z)
                   ELSE BlockPos(pos.x - 1, pos.y, pos.z))
       IN  neighbor = "Air" \/ is_transparent(neighbor)

\* chunk.rs:163-188  the match on direction: the face is on the boundary
\* (return true), or the position of the neighbouring block
FaceOnBoundary(pos, direction) ==
    IF direction = "PosY" THEN pos.y >= CHUNK_SIZE - 1
    ELSE IF direction = "NegY" THEN pos.y = 0
    ELSE IF direction = "PosZ" THEN pos.z >= CHUNK_SIZE - 1
    ELSE IF direction = "NegZ" THEN pos.z = 0
    ELSE IF direction = "PosX" THEN pos.x >= CHUNK_SIZE - 1
    ELSE pos.x = 0

neighbor_pos(pos, direction) ==
    IF direction = "PosY" THEN BlockPos(pos.x, pos.y + 1, pos.z)
    ELSE IF direction = "NegY" THEN BlockPos(pos.x, pos.y - 1, pos.z)
    ELSE IF direction = "PosZ" THEN BlockPos(pos.x, pos.y, pos.z + 1)
    ELSE IF direction = "NegZ" THEN BlockPos(pos.x, pos.y, pos.z - 1)
    ELSE IF direction = "PosX" THEN BlockPos(pos.x + 1, pos.y, pos.z)
    ELSE BlockPos(pos.x - 1, pos.y, pos.z)

\* Chunk::should_render_face
should_render_face(chunk, pos, direction) ==
    IF get_block(chunk, pos) = "Air" THEN FALSE
    ELSE IF FaceOnBoundary(pos, direction) THEN TRUE
    ELSE LET n == neighbor_pos(pos, direction)
         IN  IF n.x >= CHUNK_SIZE \/ n.y >= CHUNK_SIZE \/ n.z >= CHUNK_SIZE
             THEN TRUE
             ELSE LET neighbor == get_block(chunk, n)
                  IN  neighbor = "Air" \/ is_transparent(neighbor)

\* chunk.rs:156-197  the indices at which should_render_face indexes the
\* blocks array, through get_block
should_render_face_indexed(chunk, pos, direction) ==
    get_block_indexed(pos)
        \cup (IF get_block(chunk, pos) = "Air" \/ FaceOnBoundary(pos, direction)
              THEN {}
              ELSE LET n == neighbor_pos(pos, direction)
                   IN  IF n.x >= CHUNK_SIZE \/ n.y >= CHUNK_SIZE
                             \/ n.z >= CHUNK_SIZE
                       THEN {}
                       ELSE get_block_indexed(n))

\* chunk.rs:283  the position is outside the chunk
OutsideChunk(x, y, z) ==
    \/ x < 0 \/ y < 0 \/ z < 0
    \/ x >= CHUNK_SIZE \/ y >= CHUNK_SIZE \/ z >= CHUNK_SIZE

\* Chunk::is_position_solid
is_position_solid(chunk, x, y, z) ==
    IF OutsideChunk(x, y, z) THEN TRUE
    ELSE chunk.blocks[get_index_static(AsUsize(x), AsUsize(y), AsUsize(z))]
             # "Air"

\* chunk.rs:289  the indices at which is_position_solid indexes the array
is_position_solid_indexed(x, y, z) ==
    IF OutsideChunk(x, y, z) THEN {}
    ELSE {get_index_static(AsUsize(x), AsUsize(y), AsUsize(z))}

\* Variant of calculate_ao: a solid corner gives 0.7 whenever the two sides
\* are not both solid
calculate_ao_corner_first(chunk, x, y, z, side1, side2) ==
    LET side1_solid ==
            is_position_solid(chunk, x + side1.x, y + side1.y, z + side1.z)
        side2_solid ==
            is_position_solid(chunk, x + side2.x, y + side2.y, z + side2.z)
        corner_solid ==
            is_position_solid(chunk, x + side1.x + side2.x,
                              y + side1.y + side2.y, z + side1.z + side2.z)
    IN  IF side1_solid /\ side2_solid THEN 5
        ELSE IF corner_solid THEN 7
        ELSE IF side1_solid \/ side2_solid THEN 8
        ELSE 10

\* Chunk::calculate_ao, in tenths
calculate_ao(chunk, x, y, z, side1, side2) ==
    LET side1_solid ==
            is_position_solid(chunk, x + side1.x, y + side1.y, z + side1.z)
        side2_solid ==
            is_position_solid(chunk, x + side2.x, y + side2.y, z + side2.z)
        corner_solid ==
            is_position_solid(chunk, x + side1.x + side2.x,
                              y + side1.y + side2.y, z + side1.z + side2.z)
    IN  IF side1_solid /\ side2_solid THEN 5
        ELSE IF corner_solid /\ (~side1_solid /\ ~side2_solid) THEN 7
        ELSE IF side1_solid \/ side2_solid \/ corner_solid THEN 8
        ELSE 10

\* chunk.rs:262-264  the indices at which calculate_ao indexes the array
calculate_ao_indexed(x, y, z, side1, side2) ==
    is_position_solid_indexed(x + side1.x, y + side1.y, z + side1.z)
        \cup is_position_solid_indexed(x + side2.x, y + side2.y, z + side2.z)
        \cup is_position_solid_indexed(x + side1.x + side2.x,
                                       y + side1.y + side2.y,
                                       z + side1.z + side2.z)

AoArgs(x, y, z, side1, side2) ==
    [x |-> x, y |-> y, z |-> z, side1 |-> side1, side2 |-> side2]

\* chunk.rs:342-441  the arguments of the four calculate_ao calls of a face
AoCalls(direction, ix, iy, iz) ==
    IF direction = "PosY" THEN
        << AoArgs(ix, iy + 1, iz, IVec(0, 0, -1), IVec(-1, 0, 0)),
           AoArgs(ix + 1, iy + 1, iz, IVec(0, 0, -1), IVec(1, 0, 0)),
           AoArgs(ix + 1, iy + 1, iz + 1, IVec(0, 0, 1), IVec(1, 0, 0)),
           AoArgs(ix, iy + 1, iz + 1, IVec(0, 0, 1), IVec(-1, 0, 0)) >>
    ELSE IF direction = "NegY" THEN
        << AoArgs(ix, iy - 1, iz, IVec(0, 0, -1), IVec(-1, 0, 0)),
           AoArgs(ix, iy - 1, iz + 1, IVec(0, 0, 1), IVec(-1, 0, 0)),
           AoArgs(ix + 1, iy - 1, iz + 1, IVec(0, 0, 1), IVec(1, 0, 0)),
           AoArgs(ix + 1, iy - 1, iz, IVec(0, 0, -1), IVec(1, 0, 0)) >>
    ELSE IF direction = "PosZ" THEN
        << AoArgs(ix, iy, iz + 1, IVec(-1, 0, 0), IVec(0, -1, 0)),
           AoArgs(ix, iy + 1, iz + 1, IVec(-1, 0, 0), IVec(0, 1, 0)),
           AoArgs(ix + 1, iy + 1, iz + 1, IVec(1, 0, 0), IVec(0, 1, 0)),
           AoArgs(ix + 1, iy, iz + 1, IVec(1, 0, 0), IVec(0, -1, 0)) >>
    ELSE IF direction = "NegZ" THEN
        << AoArgs(ix, iy, iz - 1, IVec(-1, 0, 0), IVec(0, -1, 0)),
           AoArgs(ix + 1, iy, iz - 1, IVec(1, 0, 0), IVec(0, -1, 0)),
           AoArgs(ix + 1, iy + 1, iz - 1, IVec(1, 0, 0), IVec(0, 1, 0)),
           AoArgs(ix, iy + 1, iz - 1, IVec(-1, 0, 0), IVec(0, 1, 0)) >>
    ELSE IF direction = "PosX" THEN
        << AoArgs(ix + 1, iy, iz, IVec(0, -1, 0), IVec(0, 0, -1)),
           AoArgs(ix + 1, iy, iz + 1, IVec(0, -1, 0), IVec(0, 0, 1)),
           AoArgs(ix + 1, iy + 1, iz + 1, IVec(0, 1, 0), IVec(0, 0, 1)),
           AoArgs(ix + 1, iy + 1, iz, IVec(0, 1, 0), IVec(0, 0, -1)) >>
    ELSE
        << AoArgs(ix - 1, iy, iz, IVec(0, -1, 0), IVec(0, 0, -1)),
           AoArgs(ix - 1, iy + 1, iz, IVec(0, 1, 0), IVec(0, 0, -1)),
           AoArgs(ix - 1, iy + 1, iz + 1, IVec(0, 1, 0), IVec(0, 0, 1)),
           AoArgs(ix - 1, iy, iz + 1, IVec(0, -1, 0), IVec(0, 0, 1)) >>

\* chunk.rs:350-439  the four vertex positions of a face
vertex_positions(direction, x, y, z) ==
    IF direction = "PosY" THEN
        << <<x, y + 1, z>>, <<x + 1, y + 1, z>>,
           <<x + 1, y + 1, z + 1>>, <<x, y + 1, z + 1>> >>
    ELSE IF direction = "NegY" THEN
        << <<x, y, z>>, <<x, y, z + 1>>,
           <<x + 1, y, z + 1>>, <<x + 1, y, z>> >>
    ELSE IF direction = "PosZ" THEN
        << <<x, y, z + 1>>, <<x, y + 1, z + 1>>,
           <<x + 1, y + 1, z + 1>>, <<x + 1, y, z + 1>> >>
    ELSE IF direction = "NegZ" THEN
        << <<x, y, z>>, <<x + 1, y, z>>,
           <<x + 1, y + 1, z>>, <<x, y + 1, z>> >>
    ELSE IF direction = "PosX" THEN
        << <<x + 1, y, z>>, <<x + 1, y, z + 1>>,
           <<x + 1, y + 1, z + 1>>, <<x + 1, y + 1, z>> >>
    ELSE
        << <<x, y, z>>, <<x, y + 1, z>>,
           <<x, y + 1, z + 1>>, <<x, y, z + 1>> >>

\* chunk.rs:444-451
face_normal(direction) ==
    IF direction = "PosY" THEN <<0, 1, 0>>
    ELSE IF direction = "NegY" THEN <<0, -1, 0>>
    ELSE IF direction = "PosZ" THEN <<0, 0, 1>>
    ELSE IF direction = "NegZ" THEN <<0, 0, -1>>
    ELSE IF direction = "PosX" THEN <<1, 0, 0>>
    ELSE <<-1, 0, 0>>

\* Chunk::add_face: what one call pushes onto positions, normals and
\* indices, and the occlusion factors it scales the four colours by.
\* index_offset is positions.len() at the call.
add_face(chunk, index_offset, direction, x, y, z) ==
    LET calls == AoCalls(direction, x, y, z)
        ao_values == [i \in 1 .. 4 |->
                         calculate_ao(chunk, calls[i].x, calls[i].y, calls[i].z,
                                      calls[i].side1, calls[i].side2)]
    IN  [block_pos |-> BlockPos(x, y, z),
         direction |-> direction,
         positions |-> vertex_positions(direction, x, y, z),
         normals   |-> [i \in 1 .. 4 |-> face_normal(direction)],
         ao_values |-> ao_values,
         indices   |->
             IF ao_values[1] + ao_values[3] > ao_values[2] + ao_values[4]
             THEN << index_offset, index_offset + 1, index_offset + 2,
                     index_offset, index_offset + 2, index_offset + 3 >>
             ELSE << index_offset, index_offset + 1, index_offset + 3,
                     index_offset + 1, index_offset + 2, index_offset + 3 >>]

\* chunk.rs:342-441  the indices at which one add_face call indexes the
\* blocks array, through calculate_ao
add_face_indexed(direction, x, y, z) ==
    LET calls == AoCalls(direction, x, y, z)
    IN  UNION { calculate_ao_indexed(calls[i].x, calls[i].y, calls[i].z,
                                     calls[i].side1, calls[i].side2) :
                i \in 1 .. 4 }

\* chunk.rs:213-216  the k-th cell of build_mesh's loops (x outermost, z
\* innermost)
LoopCell(k) ==
    BlockPos(k \div (CHUNK_SIZE * CHUNK_SIZE), (k \div CHUNK_SIZE) % CHUNK_SIZE,
             k % CHUNK_SIZE)

\* chunk.rs:217-226  the faces one cell contributes, in order
CellFaces(chunk, k) ==
    LET block_pos == LoopCell(k)
        block_type ==
            chunk.blocks[get_index_static(block_pos.x, block_pos.y, block_pos.z)]
    IN  IF block_type = "Air" THEN << >>
        ELSE [i \in 1 .. Cardinality(
                    {j \in 1 .. 6 :
                        should_render_face(chunk, block_pos, DirectionOrder[j])})
              |-> LET d == CHOOSE j \in 1 .. 6 :
                              /\ should_render_face(chunk, block_pos,
                                                    DirectionOrder[j])
                              /\ Cardinality(
                                   {h \in 1 .. j - 1 :
                                       should_render_face(chunk, block_pos,
                                                          DirectionOrder[h])})
                                     = i - 1
                  IN  [block_pos |-> block_pos, direction |-> DirectionOrder[d]]]

\* chunk.rs:213-240  the faces of the cells lo .. hi, in loop order
RECURSIVE FacesIn(_, _, _)
FacesIn(chunk, lo, hi) ==
    IF lo = hi THEN CellFaces(chunk, lo)
    ELSE LET mid == (lo + hi) \div 2
         IN  FacesIn(chunk, lo, mid) \o FacesIn(chunk, mid + 1, hi)

\* Chunk::build_mesh: the vertex attributes and the index list of the mesh.
\* quads keeps the add_face calls apart (instrumentation).  With no face the
\* mesh has no attributes and no indices (chunk.rs:243-245).
build_mesh(chunk) ==
    LET faces == FacesIn(chunk, 0, CHUNK_VOLUME - 1)
        quads == [q \in 1 .. Len(faces) |->
                     add_face(chunk, 4 * (q - 1), faces[q].direction,
                              faces[q].block_pos.x, faces[q].block_pos.y,
                              faces[q].block_pos.z)]
    IN  [quads     |-> quads,
         positions |-> [v \in 1 .. 4 * Len(faces) |->
                           quads[(v - 1) \div 4 + 1].positions[((v - 1) % 4) + 1]],
         normals   |-> [v \in 1 .. 4 * Len(faces) |->
                           quads[(v - 1) \div 4 + 1].normals[((v - 1) % 4) + 1]],
         uvs       |-> [v \in 1 .. 4 * Len(faces) |->
                           << <<0, 0>>, <<1, 0>>, <<1, 1>>, <<0, 1>> >>
                               [((v - 1) % 4) + 1]],
         indices   |-> [j \in 1 .. 6 * Len(faces) |->
                           quads[(j - 1) \div 6 + 1].indices[((j - 1) % 6) + 1]]]

\* chunk.rs:213-240  the indices at which build_mesh indexes the blocks
\* array: its own read of every cell, and the reads of should_render_face
\* and add_face
build_mesh_indexed(chunk) ==
    UNION { {get_index_static(LoopCell(k).x, LoopCell(k).y, LoopCell(k).z)} :
            k \in 0 .. CHUNK_VOLUME - 1 }
      \cup UNION { UNION { should_render_face_indexed(chunk, LoopCell(k),
                                                      DirectionOrder[j])
                             \cup (IF should_render_face(chunk, LoopCell(k),
                                                         DirectionOrder[j])
                                   THEN add_face_indexed(DirectionOrder[j],
                                            LoopCell(k).x, LoopCell(k).y,
                                            LoopCell(k).z)
                                   ELSE {}) :
                           j \in 1 .. 6 } :
                   k \in { c \in 0 .. CHUNK_VOLUME - 1 :
                             chunk.blocks[get_index_static(LoopCell(c).x,
                                 LoopCell(c).y, LoopCell(c).z)] # "Air" } }

\* raycast.rs:95-98  the indices at which the raycaster indexes the blocks
\* arrays, through get_block, on the cells it examines
raycast_block_indexed(examined, data) ==
    UNION { IF CellChunk(examined[i]) \in DOMAIN data
            THEN get_block_indexed(CellLocal(examined[i]))
            ELSE {} : i \in 1 .. Len(examined) }

\* ------------------------------------------------------------------------
\* The chunk harness: get_block, set_block, build_mesh and raycast_block on
\* one chunk at the origin; one call on the chunk, then the ray
\* ------------------------------------------------------------------------

\* local coordinates beyond the chunk go up to CHUNK_SIZE + MaxOvershoot
MaxOvershoot == 0

\* The cell whose top face has, at its first vertex, the three cells of
\* AoCells as its two edge cells and its corner cell
AoCell == BlockPos(7, 7, 7)

AoCells == << BlockPos(7, 8, 6), BlockPos(6, 8, 7), BlockPos(6, 8, 6) >>

\* Chunk::new, then set_block(p, block_type) for every p of cells
ChunkWith(cells, block_type) ==
    LET c == NewChunk(Origin000)
    IN  [c EXCEPT !.blocks = [i \in DOMAIN c.blocks |->
                                 IF PosOfIndex(i) \in cells THEN block_type
                                 ELSE c.blocks[i]],
                  !.dirty = TRUE]

\* The block arrays of the harness: the empty chunk, the floor fixture, one
\* cell in a corner or on an edge of the chunk, one cell inside the chunk
\* with each combination of occupied cells around a vertex of its top face,
\* and the same cell with Water above it and around that vertex
HarnessChunks ==
    {NewChunk(Origin000), TestChunk}
      \cup { ChunkWith({BlockPos(x, x \div 2, 15)}, "Stone") : x \in {0, 15} }
      \cup { ChunkWith({AoCell} \cup {AoCells[i] : i \in S}, "Dirt") :
                S \in SUBSET (1 .. 3) }
      \cup { [ChunkWith({AoCells[i] : i \in S} \cup {BlockPos(7, 8, 7)},
                         "Water") EXCEPT
                 !.blocks[to_index(AoCell)] = "Sand"] :
                S \in {{1, 2}} }

\* local coordinates of the calls: in the chunk, just beyond it, and the
\* wrapped value of -1 as usize
LocalCoordinates ==
    {0, CHUNK_SIZE - 1} \cup (CHUNK_SIZE .. CHUNK_SIZE + MaxOvershoot)
        \cup {USIZE_MODULUS - 1}

LocalPositions ==
    { BlockPos(x, y, z) :
        x \in LocalCoordinates, y \in LocalCoordinates,
        z \in {0, CHUNK_SIZE - 1, CHUNK_SIZE, USIZE_MODULUS - 1} }

InitChunk ==
    /\ app = "raycast_test"
    /\ pending = {}
    /\ chunks = {}
    /\ \E c \in HarnessChunks : chunk_data = (Origin000 :> c)
    /\ terrain_generator = "flat"
    /\ entities = [chunks |-> {}, highlights |-> 0]
    /\ commands = NoCommands
    /\ translation = Vec3(-3, 1, 15, 2)
    /\ forward = IVec(1, 0, 0)
    /\ cursor_state = [locked |-> FALSE]
    /\ targeted_block = [hit |-> NoHit, highlight_entity |-> FALSE]
    /\ input = NoInput
    /\ clicks = 0
    /\ cast = NotCast
    /\ last_load = NotLoaded
    /\ probe = NoProbe

\* chunk.set_block(pos, block_type)
test_set_block ==
    /\ app = "raycast_test"
    /\ probe.op = "none"
    /\ ~cast.called
    /\ \E pos \in LocalPositions, block_type \in BlockType :
          /\ chunk_data' = [chunk_data EXCEPT
                               ![Origin000] = set_block(@, pos, block_type)]
          /\ probe' = [op |-> "set_block", pos |-> pos,
                       block_type |-> block_type,
                       indexed |-> set_block_indexed(pos)]
    /\ UNCHANGED <<app, last_load, pending, chunks, terrain_generator,
                   entities, commands, translation, forward, cursor_state,
                   targeted_block, input, clicks, cast>>

\* chunk.get_block(pos)
test_get_block ==
    /\ app = "raycast_test"
    /\ probe.op = "none"
    /\ ~cast.called
    /\ \E pos \in LocalPositions :
          probe' = [op |-> "get_block", pos |-> pos,
                    result |-> get_block(chunk_data[Origin000], pos),
                    indexed |-> get_block_indexed(pos)]
    /\ UNCHANGED <<app, last_load, pending, chunks, chunk_data,
                   terrain_generator, entities, commands, translation, forward,
                   cursor_state, targeted_block, input, clicks, cast>>

\* chunk.build_mesh()
test_build_mesh ==
    /\ app = "raycast_test"
    /\ probe.op = "none"
    /\ ~cast.called
    /\ probe' = [op |-> "build_mesh",
                 mesh |-> build_mesh(chunk_data[Origin000]),
                 indexed |-> build_mesh_indexed(chunk_data[Origin000])]
    /\ UNCHANGED <<app, last_load, pending, chunks, chunk_data,
                   terrain_generator, entities, commands, translation, forward,
                   cursor_state, targeted_block, input, clicks, cast>>

NextChunk ==
    \/ test_set_block
    \/ test_get_block
    \/ test_build_mesh
    \/ test_raycast

SpecChunk == InitChunk /\ [][NextChunk]_vars

\* ------------------------------------------------------------------------
\* main.rs: startup and chunk loading
\* ------------------------------------------------------------------------

\* Variant of Square: the upper ends of the ranges are exclusive
Square_exclusive(center, radius) ==
    { ChunkPos(x, 0, z) : x \in center.x - radius .. center.x + radius - 1,
                          z \in center.z - radius .. center.z + radius - 1 }

\* The (x, 0, z) square of the given radius around a chunk position
Square(center, radius) ==
    { ChunkPos(x, 0, z) : x \in center.x - radius .. center.x + radius,
                          z \in center.z - radius .. center.z + radius }

\* spawn_chunk for every position of a set: a position already in
\* chunk_manager.chunks is skipped; for the others the chunk is created,
\* generated and meshed, its entity is queued for spawning and the position
\* is inserted into chunk_manager.chunks.  The Chunk value itself is dropped
\* when spawn_chunk returns: it is never inserted into chunk_data.
SpawnTargets(cs, positions) == positions \ cs

spawn_chunk_chunks(cs, positions) == cs \cup SpawnTargets(cs, positions)

spawn_chunk_data(data, cs, positions) == data

\* main.rs:210-217  the camera start: (0, get_height(0, 0) + 2.0 + 1.8, 0)
\* looking at a point 5 units along +z
StartTranslation(generator) ==
    Vec3(0, get_height(generator, 0, 0) + 20 + 18, 0, 10)

StartForward == IVec(0, 0, 1)

\* setup (Startup schedule)
setup ==
    /\ "setup" \in pending
    /\ pending' = pending \ {"setup"}
    /\ chunks' = spawn_chunk_chunks(chunks, Square(Origin000, SETUP_RADIUS))
    /\ chunk_data' = spawn_chunk_data(chunk_data, chunks,
                                      Square(Origin000, SETUP_RADIUS))
    /\ commands' = [commands EXCEPT
           !.spawn = @ \cup SpawnTargets(chunks, Square(Origin000, SETUP_RADIUS))]
    /\ UNCHANGED <<app, last_load, probe, terrain_generator, entities, translation, forward,
                   cursor_state, targeted_block, input, clicks, cast>>

\* Variant of ChunksToUnload: a chunk at the render distance is unloaded too
ChunksToUnload_atDistance(camera_chunk_pos) ==
    { p \in entities.chunks :
        \/ Abs(p.x - camera_chunk_pos.x) >= RENDER_DISTANCE
        \/ Abs(p.z - camera_chunk_pos.z) >= RENDER_DISTANCE }

\* main.rs:157-167  chunk entities outside the render distance
ChunksToUnload(camera_chunk_pos) ==
    { p \in entities.chunks :
        \/ Abs(p.x - camera_chunk_pos.x) > RENDER_DISTANCE
        \/ Abs(p.z - camera_chunk_pos.z) > RENDER_DISTANCE }

\* main.rs:170-173  despawn the entity, remove the position from chunks
\* (chunk_data is left alone)
UnloadChunks(cs, unload) == cs \ unload

UnloadData(data, unload) == data

update_chunk_loading ==
    /\ "update_chunk_loading" \in pending
    /\ pending' = pending \ {"update_chunk_loading"}
    /\ LET camera_chunk_pos == from_world_pos(translation)
           unload == ChunksToUnload(camera_chunk_pos)
           kept == UnloadChunks(chunks, unload)
           kept_data == UnloadData(chunk_data, unload)
           wanted == Square(ChunkPos(camera_chunk_pos.x, 0, camera_chunk_pos.z),
                            RENDER_DISTANCE)
       IN  /\ chunks' = spawn_chunk_chunks(kept, wanted)
           /\ chunk_data' = spawn_chunk_data(kept_data, kept, wanted)
           /\ commands' = [commands EXCEPT
                  !.despawn = @ \cup unload,
                  !.spawn = @ \cup SpawnTargets(kept, wanted)]
           /\ last_load' = Loaded(camera_chunk_pos)
    /\ UNCHANGED <<app, probe, terrain_generator, entities, translation, forward,
                   cursor_state, targeted_block, input, clicks, cast>>

\* ------------------------------------------------------------------------
\* main.rs: camera, player and cursor systems.  Their float physics is
\* outside the voxel core: a frame's movement puts the camera at one of a
\* few positions, a frame's mouse motion turns it to one of a few directions
\* (pitch is clamped to +-1.5 rad, so never straight up or down).
\* ------------------------------------------------------------------------

CameraPositions ==
    { Vec3(0, 188, 0, 10),       \* the start position of setup
      Vec3(5, 18, 5, 10),        \* on the world floor, y = 1.8
      Vec3(165, 188, 5, 10) }    \* one chunk to the east

CameraDirections == { IVec(0, 0, 1), IVec(0, -2, 1) }

camera_movement_system ==
    /\ "camera_movement_system" \in pending
    /\ pending' = pending \ {"camera_movement_system"}
    /\ translation' \in CameraPositions
    /\ UNCHANGED <<app, last_load, probe, chunks, chunk_data, terrain_generator, entities,
                   commands, forward, cursor_state, targeted_block, input,
                   clicks, cast>>

player_movement ==
    /\ "player_movement" \in pending
    /\ pending' = pending \ {"player_movement"}
    /\ IF cursor_state.locked
       THEN translation' \in CameraPositions
       ELSE translation' = translation
    /\ UNCHANGED <<app, last_load, probe, chunks, chunk_data, terrain_generator, entities,
                   commands, forward, cursor_state, targeted_block, input,
                   clicks, cast>>

mouse_look ==
    /\ "mouse_look" \in pending
    /\ pending' = pending \ {"mouse_look"}
    /\ IF cursor_state.locked
       THEN forward' \in CameraDirections
       ELSE forward' = forward
    /\ UNCHANGED <<app, last_load, probe, chunks, chunk_data, terrain_generator, entities,
                   commands, translation, cursor_state, targeted_block, input,
                   clicks, cast>>

toggle_cursor_lock ==
    /\ "toggle_cursor_lock" \in pending
    /\ pending' = pending \ {"toggle_cursor_lock"}
    /\ \E tab \in BOOLEAN :
          cursor_state' = [locked |-> IF tab THEN ~cursor_state.locked
                                      ELSE cursor_state.locked]
    /\ UNCHANGED <<app, last_load, probe, chunks, chunk_data, terrain_generator, entities,
                   commands, translation, forward, targeted_block, input,
                   clicks, cast>>

\* ------------------------------------------------------------------------
\* block_interaction.rs: block_targeting_system
\* ------------------------------------------------------------------------

\* block_interaction.rs:41-48  the (pos, chunk) pairs handed to the
\* raycaster: one per chunk entity whose position has an entry in chunk_data
TargetingChunks(ents, data) ==
    [p \in ents.chunks \cap DOMAIN data |-> data[p]]

\* Variant of DespawnHighlight: the old highlight is left in the World
DespawnHighlight_never(cmds, target) == cmds

\* block_interaction.rs:22-25, 54-57  despawn the old highlight, if any
DespawnHighlight(cmds, target) ==
    IF target.highlight_entity
    THEN [cmds EXCEPT !.despawn_highlight = TRUE]
    ELSE cmds

block_targeting_system ==
    /\ "block_targeting_system" \in pending
    /\ pending' = pending \ {"block_targeting_system"}
    /\ IF ~cursor_state.locked
       THEN /\ commands' = DespawnHighlight(commands, targeted_block)
            /\ targeted_block' = [hit |-> NoHit, highlight_entity |-> FALSE]
       ELSE LET hit == raycast_block(translation, forward,
                           TargetingChunks(entities, chunk_data)).hit
                removed == DespawnHighlight(commands, targeted_block)
            IN  IF hit.some
                THEN /\ commands' = [removed EXCEPT !.spawn_highlight = TRUE]
                     /\ targeted_block' =
                            [hit |-> hit, highlight_entity |-> TRUE]
                ELSE /\ commands' = removed
                     /\ targeted_block' =
                            [hit |-> NoHit, highlight_entity |-> FALSE]
    /\ UNCHANGED <<app, last_load, probe, chunks, chunk_data, terrain_generator, entities,
                   translation, forward, cursor_state, input, clicks, cast>>

\* ------------------------------------------------------------------------
\* block_interaction.rs: block_interaction_system
\* ------------------------------------------------------------------------

\* Variant of BreakBlock: the cell in front of the hit face is emptied
\* instead of the hit cell
BreakBlock_adjacent(data, hit) ==
    IF hit.chunk_pos \in DOMAIN data
    THEN [data EXCEPT ![hit.chunk_pos] =
             set_block(@, BlockPos(hit.block_pos.x + hit.normal.x,
                                   hit.block_pos.y + hit.normal.y,
                                   hit.block_pos.z + hit.normal.z), "Air")]
    ELSE data

\* block_interaction.rs:118-140  break: the hit cell of the hit chunk
\* becomes Air (when the chunk has block data)
BreakBlock(data, hit) ==
    IF hit.chunk_pos \in DOMAIN data
    THEN [data EXCEPT ![hit.chunk_pos] = set_block(@, hit.block_pos, "Air")]
    ELSE data

\* block_interaction.rs:147-149  (block_pos.a as i32 + normal.a as i32) as usize
PlaceRaw(b, n) == AsUsize(b + n)

\* block_interaction.rs:156-162  the x axis: chunk shift and local coordinate
PlaceAxisX(raw) ==
    IF raw >= CHUNK_SIZE THEN [shift |-> 1, local |-> 0]
    ELSE IF raw = 0 THEN [shift |-> -1, local |-> CHUNK_SIZE - 1]
    ELSE [shift |-> 0, local |-> raw]

\* block_interaction.rs:164-180  the y and z axes
PlaceAxisYZ(raw, n) ==
    IF raw >= CHUNK_SIZE THEN [shift |-> 1, local |-> 0]
    ELSE IF raw = 0 /\ n < 0 THEN [shift |-> -1, local |-> CHUNK_SIZE - 1]
    ELSE [shift |-> 0, local |-> raw]

\* block_interaction.rs:146-180  new_chunk_pos and new_block_pos
PlaceTarget(hit) ==
    LET ax == PlaceAxisX(PlaceRaw(hit.block_pos.x, hit.normal.x))
        ay == PlaceAxisYZ(PlaceRaw(hit.block_pos.y, hit.normal.y), hit.normal.y)
        az == PlaceAxisYZ(PlaceRaw(hit.block_pos.z, hit.normal.z), hit.normal.z)
    IN  [chunk_pos |-> ChunkPos(hit.chunk_pos.x + ax.shift,
                                hit.chunk_pos.y + ay.shift,
                                hit.chunk_pos.z + az.shift),
         block_pos |-> BlockPos(ax.local, ay.local, az.local)]

\* Variant of SelectedBlock: the later key wins over the earlier one
SelectedBlock_lastKey(keys) ==
    IF keys.digit3 THEN "Grass"
    ELSE IF keys.digit2 THEN "Stone"
    ELSE IF keys.digit1 THEN "Dirt"
    ELSE "Dirt"

\* block_interaction.rs:183-191  the block type to place
SelectedBlock(keys) ==
    IF keys.digit1 THEN "Dirt"
    ELSE IF keys.digit2 THEN "Stone"
    ELSE IF keys.digit3 THEN "Grass"
    ELSE "Dirt"

\* Variant of PlaceEnsureData: the new chunk is inserted as Chunk::new
\* leaves it, without terrain
PlaceEnsureData_blank(data, cs, generator, target) ==
    IF target.chunk_pos \in cs
    THEN data
    ELSE [p \in DOMAIN data \cup {target.chunk_pos} |->
             IF p = target.chunk_pos
             THEN NewChunk(target.chunk_pos)
             ELSE data[p]]

\* block_interaction.rs:194-218  get or create the destination chunk: a
\* position missing from chunks gets a freshly generated chunk in chunk_data
PlaceEnsureData(data, cs, generator, target) ==
    IF target.chunk_pos \in cs
    THEN data
    ELSE [p \in DOMAIN data \cup {target.chunk_pos} |->
             IF p = target.chunk_pos
             THEN generate_terrain(NewChunk(target.chunk_pos), generator)
             ELSE data[p]]

\* block_interaction.rs:221-223  write the block (when the chunk has data)
PlaceWrite(data, target, block_type) ==
    IF target.chunk_pos \in DOMAIN data
    THEN [data EXCEPT ![target.chunk_pos] =
              set_block(@, target.block_pos, block_type)]
    ELSE data

block_interaction_system ==
    /\ "block_interaction_system" \in pending
    /\ pending' = pending \ {"block_interaction_system"}
    /\ IF ~cursor_state.locked \/ ~targeted_block.hit.some
       THEN UNCHANGED <<chunks, chunk_data, commands, input, clicks>>
       ELSE \E left, right, digit1, digit2, digit3 \in BOOLEAN :
               \* the digit keys are read by the place branch only
               /\ ~right => ~(digit1 \/ digit2 \/ digit3)
               /\ (left \/ right) => clicks < MaxClicks
               /\ clicks' = IF left \/ right THEN clicks + 1 ELSE clicks
               /\ input' = [read |-> TRUE, left |-> left, right |-> right,
                            digit1 |-> digit1, digit2 |-> digit2,
                            digit3 |-> digit3]
               /\ LET hit == targeted_block.hit
                      \* line 121: no entity for the hit chunk ends the system
                      returned == left /\ ~(hit.chunk_pos \in chunks)
                      broken == IF left /\ ~returned
                                THEN BreakBlock(chunk_data, hit)
                                ELSE chunk_data
                      target == PlaceTarget(hit)
                  IN  IF right /\ ~returned
                      THEN /\ chunks' = chunks \cup {target.chunk_pos}
                           /\ chunk_data' =
                                 PlaceWrite(
                                     PlaceEnsureData(broken, chunks,
                                                     terrain_generator, target),
                                     target, SelectedBlock(input'))
                           /\ commands' =
                                 IF target.chunk_pos \in chunks
                                 THEN commands
                                 ELSE [commands EXCEPT
                                          !.spawn = @ \cup {target.chunk_pos}]
                      ELSE /\ chunks' = chunks
                           /\ chunk_data' = broken
                           /\ commands' = commands
    /\ UNCHANGED <<app, last_load, probe, terrain_generator, entities, translation, forward,
                   cursor_state, targeted_block, cast>>

\* ------------------------------------------------------------------------
\* The frame boundary: the schedule has run every system; the queued
\* Commands are applied to the World, and the next frame's Update begins
\* ------------------------------------------------------------------------

apply_deferred ==
    /\ app \in {"main", "test", "load", "gate"}
    /\ pending = {}
    /\ entities' =
          [chunks |-> (entities.chunks \ commands.despawn) \cup commands.spawn,
           highlights |->
               entities.highlights
                   - (IF commands.despawn_highlight THEN 1 ELSE 0)
                   + (IF commands.spawn_highlight THEN 1 ELSE 0)]
    /\ commands' = NoCommands
    /\ input' = NoInput
    /\ pending' = UpdateSystems(app)
    /\ UNCHANGED <<app, last_load, probe, chunks, chunk_data, terrain_generator, translation,
                   forward, cursor_state, targeted_block, clicks, cast>>

\* ------------------------------------------------------------------------
\* Initial states
\* ------------------------------------------------------------------------

\* main(): the resources' defaults; the Startup schedule is about to run.
\* The camera entity of setup is given its Transform here.
InitMain ==
    /\ app = "main"
    /\ pending = {"setup"}
    /\ chunks = {}
    /\ chunk_data = << >>
    /\ terrain_generator \in TerrainFields
    /\ entities = [chunks |-> {}, highlights |-> 0]
    /\ commands = NoCommands
    /\ translation = StartTranslation(terrain_generator)
    /\ forward = StartForward
    /\ cursor_state = [locked |-> FALSE]
    /\ targeted_block = [hit |-> NoHit, highlight_entity |-> FALSE]
    /\ input = NoInput
    /\ clicks = 0
    /\ cast = NotCast
    /\ last_load = NotLoaded
    /\ probe = NoProbe

\* Camera poses of the interaction tests.  The tests use the first one,
\* (5, 5, 5) looking at (5, 0, 5); the others aim at the floor fixture's
\* rim and at its faces from outside.
TestPoses ==
    { [translation |-> Vec3(10, 10, 10, 2), forward |-> IVec(0, -1, 0)],
      [translation |-> Vec3(1, 6, 11, 2),   forward |-> IVec(0, -1, 0)],
      [translation |-> Vec3(11, 6, 1, 2),   forward |-> IVec(0, -1, 0)],
      [translation |-> Vec3(35, 1, 11, 2),  forward |-> IVec(-1, 0, 0)],
      [translation |-> Vec3(-3, 1, 11, 2),  forward |-> IVec(1, 0, 0)],
      [translation |-> Vec3(11, -5, 11, 2), forward |-> IVec(0, 1, 0)],
      [translation |-> Vec3(11, 1, 35, 2),  forward |-> IVec(0, 0, -1)],
      [translation |-> Vec3(11, 1, -3, 2),  forward |-> IVec(0, 0, 1)] }

\* setup_test_app and the test bodies of block_interaction.rs: the floor
\* chunk is inserted into chunk_data and chunks (with Entity::from_raw(1);
\* no chunk entity is spawned), the cursor is locked, and TargetedBlock is
\* inserted with the hit on the fixture the camera is aimed at.
InitTest ==
    /\ app = "test"
    /\ pending = UpdateSystems("test")
    /\ chunks = {Origin000}
    /\ chunk_data = (Origin000 :> TestChunk)
    /\ terrain_generator \in TerrainFields
    /\ entities = [chunks |-> {}, highlights |-> 0]
    /\ commands = NoCommands
    /\ \E pose \in TestPoses :
          /\ translation = pose.translation
          /\ forward = pose.forward
          /\ targeted_block =
                [hit |-> raycast_block(pose.translation, pose.forward,
                                       (Origin000 :> TestChunk)).hit,
                 highlight_entity |-> FALSE]
    /\ cursor_state = [locked |-> TRUE]
    /\ input = NoInput
    /\ clicks = 0
    /\ cast = NotCast
    /\ last_load = NotLoaded
    /\ probe = NoProbe

Init == InitMain \/ InitTest

\* ------------------------------------------------------------------------
\* update_chunk_loading on a store that holds placed chunks.  The chunks of
\* the store are as the place path creates them (block_interaction.rs:198-
\* 215: a generated Chunk in chunk_data, its entity with a ChunkComponent,
\* and the entry in chunks) with the placed block written; their entities
\* are spawned.  The schedule holds update_chunk_loading alone, and the
\* camera stands still.
\* ------------------------------------------------------------------------

PlacedPositions ==
    { ChunkPos(0, 0, 0), ChunkPos(1, 0, 0), ChunkPos(5, 0, 0),
      ChunkPos(0, 1, 0), ChunkPos(0, 0, -4), ChunkPos(-3, 0, 0) }

PlacedChunk(generator, position) ==
    set_block(generate_terrain(NewChunk(position), generator),
              BlockPos(0, 0, 0), "Dirt")

InitLoad ==
    /\ app = "load"
    /\ pending = UpdateSystems("load")
    /\ terrain_generator \in TerrainFields
    /\ \E placed \in SUBSET PlacedPositions :
          /\ chunks = placed
          /\ chunk_data = [p \in placed |-> PlacedChunk(terrain_generator, p)]
          /\ entities = [chunks |-> placed, highlights |-> 0]
    /\ commands = NoCommands
    /\ translation \in CameraPositions
    /\ forward = StartForward
    /\ cursor_state = [locked |-> FALSE]
    /\ targeted_block = [hit |-> NoHit, highlight_entity |-> FALSE]
    /\ input = NoInput
    /\ clicks = 0
    /\ cast = NotCast
    /\ last_load = NotLoaded
    /\ probe = NoProbe

NextLoad ==
    \/ update_chunk_loading
    \/ apply_deferred

SpecLoad == InitLoad /\ [][NextLoad]_vars

\* ------------------------------------------------------------------------
\* The aiming systems with the cursor lock.  The App is that of
\* setup_test_app with toggle_cursor_lock added to its Update systems; the
\* floor chunk has its block data, its entry in chunks and its entity with
\* a ChunkComponent, so that block_targeting_system hands it to the
\* raycaster; the cursor starts locked or unlocked.
\* ------------------------------------------------------------------------

GatePoses ==
    { [translation |-> Vec3(10, 10, 10, 2), forward |-> IVec(0, -1, 0)],
      [translation |-> Vec3(35, 1, 11, 2),  forward |-> IVec(-1, 0, 0)],
      [translation |-> Vec3(10, 10, 10, 2), forward |-> IVec(0, 1, 0)] }

InitGate ==
    /\ app = "gate"
    /\ pending = UpdateSystems("gate")
    /\ chunks = {Origin000}
    /\ chunk_data = (Origin000 :> TestChunk)
    /\ terrain_generator \in TerrainFields
    /\ entities = [chunks |-> {Origin000}, highlights |-> 0]
    /\ commands = NoCommands
    /\ \E pose \in GatePoses :
          /\ translation = pose.translation
          /\ forward = pose.forward
    /\ targeted_block = [hit |-> NoHit, highlight_entity |-> FALSE]
    /\ cursor_state \in {[locked |-> FALSE], [locked |-> TRUE]}
    /\ input = NoInput
    /\ clicks = 0
    /\ cast = NotCast
    /\ last_load = NotLoaded
    /\ probe = NoProbe

NextGate ==
    \/ toggle_cursor_lock
    \/ block_targeting_system
    \/ block_interaction_system
    \/ apply_deferred

SpecGate == InitGate /\ [][NextGate]_vars

\* ------------------------------------------------------------------------
\* Terrain generation of one region, as spawn_chunk (main.rs:105-106) and
\* the place path (block_interaction.rs:198-199) do it: Chunk::new, then
\* generate_terrain.  chunks names the region to generate.
\* ------------------------------------------------------------------------

TerrainRegions ==
    { ChunkPos(x, y, z) : x \in -MaxRegion .. MaxRegion, y \in {-1, 0, 1},
                          z \in {-1, 0} }

InitTerrain ==
    /\ app = "terrain"
    /\ pending = {}
    /\ \E p \in TerrainRegions : chunks = {p}
    /\ chunk_data = << >>
    /\ terrain_generator \in TerrainFields
    /\ entities = [chunks |-> {}, highlights |-> 0]
    /\ commands = NoCommands
    /\ translation = Vec3(0, 0, 0, 1)
    /\ forward = IVec(0, 0, -1)
    /\ cursor_state = [locked |-> FALSE]
    /\ targeted_block = [hit |-> NoHit, highlight_entity |-> FALSE]
    /\ input = NoInput
    /\ clicks = 0
    /\ cast = NotCast
    /\ last_load = NotLoaded
    /\ probe = NoProbe

\* let mut chunk = Chunk::new(pos); chunk.generate_terrain(&generator);
test_generate_terrain ==
    /\ app = "terrain"
    /\ chunk_data = << >>
    /\ chunk_data' = [p \in chunks |->
                         generate_terrain(NewChunk(p), terrain_generator)]
    /\ UNCHANGED <<app, last_load, probe, pending, chunks, terrain_generator,
                   entities, commands, translation, forward, cursor_state,
                   targeted_block, input, clicks, cast>>

NextTerrain == test_generate_terrain

SpecTerrain == InitTerrain /\ [][NextTerrain]_vars

Next ==
    \/ setup
    \/ update_chunk_loading
    \/ camera_movement_system
    \/ player_movement
    \/ mouse_look
    \/ toggle_cursor_lock
    \/ block_targeting_system
    \/ block_interaction_system
    \/ apply_deferred

Spec == Init /\ [][Next]_vars

\* ########################################################################
\* Properties
\* ########################################################################

\* The ray {origin + s * D : s >= 0} meets the closed unit cube of a world
\* cell.  Per axis the ray is inside the slab for s in [lo, hi]; the cell is
\* met iff every lower end is at most every upper end.  Rationals are
\* records [p, q] with q > 0.
RatLeq(r1, r2) == r1.p * r2.q <= r2.p * r1.q

SlabLo(origin, direction, cell, a) ==
    LET n == Comp(origin, a)
        c == Comp(cell, a)
        D == Comp(direction, a)
    IN  IF D > 0 THEN [p |-> c * origin.d - n, q |-> origin.d * D]
        ELSE [p |-> n - (c + 1) * origin.d, q |-> origin.d * (-D)]

SlabHi(origin, direction, cell, a) ==
    LET n == Comp(origin, a)
        c == Comp(cell, a)
        D == Comp(direction, a)
    IN  IF D > 0 THEN [p |-> (c + 1) * origin.d - n, q |-> origin.d * D]
        ELSE [p |-> n - c * origin.d, q |-> origin.d * (-D)]

RayTouchesCell(origin, direction, cell) ==
    LET moving == {a \in Axes : Comp(direction, a) # 0}
        los == {SlabLo(origin, direction, cell, a) : a \in moving}
                   \cup {[p |-> 0, q |-> 1]}
        his == {SlabHi(origin, direction, cell, a) : a \in moving}
    IN  /\ \A a \in Axes \ moving :
              /\ Comp(cell, a) * origin.d <= Comp(origin, a)
              /\ Comp(origin, a) <= (Comp(cell, a) + 1) * origin.d
        /\ \A lo \in los : \A hi \in his : RatLeq(lo, hi)

\* Two world cells share a face
ShareFace(c1, c2) ==
    Abs(c1.x - c2.x) + Abs(c1.y - c2.y) + Abs(c1.z - c2.z) = 1

\* The real distance |D| * n / den of a hit equals / is at most k
DistanceIs(distance, direction, k) ==
    Len2(direction) * distance.n * distance.n
        = k * k * distance.den * distance.den

DistanceAtMost(distance, direction, k) ==
    Len2(direction) * distance.n * distance.n
        <= k * k * distance.den * distance.den

\* The ray meets the cell (as RayTouchesCell) and enters it at a distance of
\* at most reach from the origin
RayReachesCell(origin, direction, cell, reach) ==
    /\ RayTouchesCell(origin, direction, cell)
    /\ \A a \in {a \in Axes : Comp(direction, a) # 0} :
          LET lo == SlabLo(origin, direction, cell, a)
          IN  \/ lo.p <= 0
              \/ Len2(direction) * lo.p * lo.p <= reach * reach * lo.q * lo.q

StraightDown(direction) ==
    direction.x = 0 /\ direction.z = 0 /\ direction.y < 0

StraightUp(direction) ==
    direction.x = 0 /\ direction.z = 0 /\ direction.y > 0

\* The chunk at the origin is the solid-floor fixture: local y = 0 is solid
\* everywhere and every other cell is Air
FloorOnly ==
    /\ DOMAIN chunk_data = {Origin000}
    /\ chunk_data[Origin000].blocks = TestChunk.blocks

\* The ray origin is over the fixture's x/z extent
OverFloor(origin) ==
    /\ 0 <= origin.x /\ origin.x < CHUNK_SIZE * origin.d
    /\ 0 <= origin.z /\ origin.z < CHUNK_SIZE * origin.d

From555(origin) ==
    /\ origin.x = 5 * origin.d
    /\ origin.y = 5 * origin.d
    /\ origin.z = 5 * origin.d

\* C5: on the solid-floor fixture, a ray cast straight down from a point at
\* or above the floor's top face (y >= 1), over the region's x/z extent and
\* within reach of the floor (y - 1 <= 5), returns a hit in that region at
\* local y = 0, in the x/z column under the origin, with normal (0, 1, 0).
C5_FloorHit ==
    ( /\ cast.called
      /\ FloorOnly
      /\ StraightDown(forward)
      /\ OverFloor(translation)
      /\ translation.y >= translation.d
      /\ translation.y <= (1 + MAX_INTERACTION_DISTANCE) * translation.d )
    => /\ cast.hit.some
       /\ cast.hit.chunk_pos = Origin000
       /\ cast.hit.block_pos =
              BlockPos(Floor(translation.x, translation.d), 0,
                       Floor(translation.z, translation.d))
       /\ cast.hit.normal = IVec(0, 1, 0)

C5_Witness ==
    /\ cast.called
    /\ FloorOnly
    /\ From555(translation)
    /\ forward = IVec(0, -1, 0)
    /\ cast.hit.some
    /\ cast.hit.block_pos = BlockPos(5, 0, 5)
    /\ cast.hit.normal = IVec(0, 1, 0)

\* C6 as stated: the ray cast straight down from (5, 5, 5) onto the solid
\* floor reports distance 5.0.
C6_DistanceFive ==
    ( /\ cast.called
      /\ FloorOnly
      /\ From555(translation)
      /\ StraightDown(forward) )
    => /\ cast.hit.some
       /\ DistanceIs(cast.hit.distance, forward, 5)

\* C6 amended: the ray cast straight down from (5, 5, 5) onto the solid
\* floor reports distance 4.0, the distance from the origin to the floor's
\* top face at y = 1.
C6_DistanceFour ==
    ( /\ cast.called
      /\ FloorOnly
      /\ From555(translation)
      /\ StraightDown(forward) )
    => /\ cast.hit.some
       /\ DistanceIs(cast.hit.distance, forward, 4)

C6_Witness ==
    /\ cast.called
    /\ FloorOnly
    /\ From555(translation)
    /\ forward = IVec(0, -1, 0)
    /\ cast.hit.some
    /\ cast.hit.block_pos.y = 0
    /\ cast.hit.distance.n = 4 * cast.hit.distance.den

\* C7: the cells raycast_block examines are cells the ray passes through,
\* in order, each consecutive pair sharing a face.
C7_ExactTraversal ==
    cast.called =>
        /\ \A i \in 1 .. Len(cast.examined) :
              RayTouchesCell(translation, forward, cast.examined[i])
        /\ \A i \in 1 .. Len(cast.examined) - 1 :
              ShareFace(cast.examined[i], cast.examined[i + 1])

\* C8: raycast_block examines at most 100 cells; a returned hit never lies
\* beyond distance 5.0; a ray cast straight up from a point at or above the
\* floor's top face, with nothing above, returns no hit.
C8_Bounded ==
    cast.called =>
        /\ Len(cast.examined) <= MAX_ITERATIONS
        /\ cast.hit.some =>
               DistanceAtMost(cast.hit.distance, forward,
                              MAX_INTERACTION_DISTANCE)
        /\ ( /\ FloorOnly
             /\ StraightUp(forward)
             /\ translation.y >= translation.d )
           => ~cast.hit.some

C8_Witness ==
    /\ cast.called
    /\ FloorOnly
    /\ From555(translation)
    /\ forward = IVec(0, 1, 0)
    /\ ~cast.hit.some
    /\ Len(cast.examined) > 1

\* ------------------------------------------------------------------------
\* Steps of the interaction and targeting systems
\* ------------------------------------------------------------------------

InteractionStep ==
    /\ "block_interaction_system" \in pending
    /\ ~("block_interaction_system" \in pending')

TargetingStep ==
    /\ "block_targeting_system" \in pending
    /\ ~("block_targeting_system" \in pending')

\* The interaction system runs with aiming enabled and a current hit, and
\* the host reports a place request only / a break request only
PlaceOnlyStep ==
    /\ InteractionStep
    /\ cursor_state.locked
    /\ targeted_block.hit.some
    /\ input'.right /\ ~input'.left

BreakOnlyStep ==
    /\ InteractionStep
    /\ cursor_state.locked
    /\ targeted_block.hit.some
    /\ input'.left /\ ~input'.right

AxisUnit(n) == Abs(n.x) + Abs(n.y) + Abs(n.z) = 1

InChunk(i) == 0 <= i /\ i < CHUNK_SIZE

\* The variant the held selection keys stand for
KeyVariant(keys) ==
    CASE keys.digit1 -> "Dirt"
      [] ~keys.digit1 /\ keys.digit2 -> "Stone"
      [] ~keys.digit1 /\ ~keys.digit2 /\ keys.digit3 -> "Grass"
      [] OTHER -> "Dirt"

\* Every chunk of chunk_data except those of the set is as it was
OtherChunksUnchanged(touched) ==
    /\ DOMAIN chunk_data' \ touched = DOMAIN chunk_data \ touched
    /\ \A p \in DOMAIN chunk_data \ touched : chunk_data'[p] = chunk_data[p]

\* C1: a place request on a hit (R, c, n), n an axis unit, with c + n inside
\* [0,16)^3 writes the selected variant at local cell c + n of region R and
\* writes to no other region.
C1_PlaceInBounds ==
    [][ LET hit == targeted_block.hit
            dest == BlockPos(hit.block_pos.x + hit.normal.x,
                             hit.block_pos.y + hit.normal.y,
                             hit.block_pos.z + hit.normal.z)
        IN  ( /\ PlaceOnlyStep
              /\ AxisUnit(hit.normal)
              /\ hit.chunk_pos \in DOMAIN chunk_data
              /\ InChunk(dest.x) /\ InChunk(dest.y) /\ InChunk(dest.z) )
            => /\ hit.chunk_pos \in DOMAIN chunk_data'
               /\ get_block(chunk_data'[hit.chunk_pos], dest)
                      = KeyVariant(input')
               /\ OtherChunksUnchanged({hit.chunk_pos})
      ]_vars

\* A place on the test's hit (5, 0, 5) with normal (0, 1, 0) has put the
\* block at (5, 1, 5) of the same chunk
C1_Witness ==
    /\ app = "test"
    /\ input.right /\ ~input.left
    /\ targeted_block.hit.some
    /\ targeted_block.hit.block_pos = BlockPos(5, 0, 5)
    /\ targeted_block.hit.normal = IVec(0, 1, 0)
    /\ DOMAIN chunk_data = {Origin000}
    /\ get_block(chunk_data[Origin000], BlockPos(5, 1, 5)) = KeyVariant(input)

\* i modulo CHUNK_SIZE, for i in -1 .. CHUNK_SIZE
WrapLocal(i) == (i + CHUNK_SIZE) % CHUNK_SIZE

\* C2: a place request on a hit (R, c, n), n an axis unit, with c + n outside
\* [0,16) on the axis of n writes the selected variant in region R + n at
\* c + n wrapped to the opposite bound on that axis.
C2_PlaceAcrossBoundary ==
    [][ LET hit == targeted_block.hit
            dest == BlockPos(hit.block_pos.x + hit.normal.x,
                             hit.block_pos.y + hit.normal.y,
                             hit.block_pos.z + hit.normal.z)
            region == ChunkPos(hit.chunk_pos.x + hit.normal.x,
                               hit.chunk_pos.y + hit.normal.y,
                               hit.chunk_pos.z + hit.normal.z)
            wrapped == BlockPos(WrapLocal(dest.x), WrapLocal(dest.y),
                                WrapLocal(dest.z))
        IN  ( /\ PlaceOnlyStep
              /\ AxisUnit(hit.normal)
              /\ ~(InChunk(dest.x) /\ InChunk(dest.y) /\ InChunk(dest.z)) )
            => /\ region \in DOMAIN chunk_data'
               /\ get_block(chunk_data'[region], wrapped) = KeyVariant(input')
               /\ OtherChunksUnchanged({region})
      ]_vars

\* A place on the hit (15, 0, 5) with normal (1, 0, 0) has created the
\* chunk to the east and put the block at its local (0, 0, 5)
C2_Witness ==
    /\ app = "test"
    /\ input.right /\ ~input.left
    /\ targeted_block.hit.some
    /\ targeted_block.hit.block_pos = BlockPos(15, 0, 5)
    /\ targeted_block.hit.normal = IVec(1, 0, 0)
    /\ DOMAIN chunk_data = {Origin000, ChunkPos(1, 0, 0)}
    /\ get_block(chunk_data[ChunkPos(1, 0, 0)], BlockPos(0, 0, 5))
           = KeyVariant(input)

\* C3: a break request with a current hit on a loaded region (one with
\* block data and a render identity) sets exactly the hit cell to Air: every
\* other cell of that region and every other region are unchanged, and so
\* is the set of loaded regions.
C3_BreakExactlyHitCell ==
    [][ LET hit == targeted_block.hit
        IN  ( /\ BreakOnlyStep
              /\ hit.chunk_pos \in chunks
              /\ hit.chunk_pos \in DOMAIN chunk_data )
            => /\ DOMAIN chunk_data' = DOMAIN chunk_data
               /\ chunks' = chunks
               /\ get_block(chunk_data'[hit.chunk_pos], hit.block_pos) = "Air"
               /\ \A i \in DOMAIN chunk_data[hit.chunk_pos].blocks :
                     i # to_index(hit.block_pos)
                     => chunk_data'[hit.chunk_pos].blocks[i]
                            = chunk_data[hit.chunk_pos].blocks[i]
               /\ OtherChunksUnchanged({hit.chunk_pos})
      ]_vars

\* A break on the fixture's floor has just emptied the hit cell
C3_Witness ==
    /\ app = "test"
    /\ input.left /\ ~input.right
    /\ targeted_block.hit.some
    /\ targeted_block.hit.chunk_pos = Origin000
    /\ targeted_block.hit.block_pos = BlockPos(5, 0, 5)
    /\ TestChunk.blocks[to_index(BlockPos(5, 0, 5))] = "Stone"
    /\ get_block(chunk_data[Origin000], BlockPos(5, 0, 5)) = "Air"
    /\ get_block(chunk_data[Origin000], BlockPos(6, 0, 5)) = "Stone"

\* C4: the variant a place request writes at its destination cell is Dirt
\* when key 1 is held, Stone when key 2 is held and 1 is not, Grass when key
\* 3 is held and neither 1 nor 2, Dirt when none is held; never Air, Sand
\* or Water.
C4_SelectedVariant ==
    [][ LET target == PlaceTarget(targeted_block.hit)
        IN  ( /\ PlaceOnlyStep
              /\ target.chunk_pos \in DOMAIN chunk_data' )
            => /\ get_block(chunk_data'[target.chunk_pos], target.block_pos)
                      = KeyVariant(input')
               /\ get_block(chunk_data'[target.chunk_pos], target.block_pos)
                      \in {"Dirt", "Stone", "Grass"}
      ]_vars

\* As in test_block_placing: key 2 held, Stone placed above the floor
C4_Witness ==
    /\ app = "test"
    /\ input.right /\ ~input.left
    /\ input.digit2 /\ ~input.digit1
    /\ targeted_block.hit.some
    /\ targeted_block.hit.block_pos = BlockPos(5, 0, 5)
    /\ get_block(chunk_data[Origin000], BlockPos(5, 1, 5)) = "Stone"

\* The world cells around the ray origin that a ray of length 5 can reach
NearCells(origin) ==
    LET c == WorldCell(origin)
        r == MAX_INTERACTION_DISTANCE + 1
    IN  { IVec(x, y, z) : x \in c.x - r .. c.x + r, y \in c.y - r .. c.y + r,
                          z \in c.z - r .. c.z + r }

\* The aim ray passes, within 5.0 units, through a non-Air cell of the
\* terrain generated for a region that is registered in chunks
AimMeetsActiveTerrain ==
    \E cell \in NearCells(translation) :
        /\ CellChunk(cell) \in chunks
        /\ TerrainBlock(terrain_generator, CellChunk(cell), CellLocal(cell))
               # "Air"
        /\ RayReachesCell(translation, forward, cell,
                          MAX_INTERACTION_DISTANCE)

\* C9: in the game started by main, whenever the aim ray, with aiming
\* enabled, passes within 5.0 units through a non-Air cell of an activated
\* and generated region, the targeting pass yields a hit.
C9_AimResolved ==
    [][ ( /\ TargetingStep
          /\ app = "main"
          /\ cursor_state.locked
          /\ AimMeetsActiveTerrain )
        => targeted_block'.hit.some
      ]_vars

\* C10: at the end of every frame the key set of chunk_data equals the key
\* set of chunks.
C10_StoreConsistent ==
    ( /\ app \in {"main", "test"}
      /\ pending = UpdateSystems(app) )
    => DOMAIN chunk_data = chunks

\* ------------------------------------------------------------------------
\* Chunk loading
\* ------------------------------------------------------------------------

LoadingStep ==
    /\ "update_chunk_loading" \in pending
    /\ ~("update_chunk_loading" \in pending')

\* The region lies in the y = 0 Chebyshev neighbourhood of the observer's
\* region c with radius r
InNeighbourhood(p, c, r) ==
    /\ p.y = 0
    /\ Abs(p.x - c.x) <= r
    /\ Abs(p.z - c.z) <= r

\* C11: when update_chunk_loading returns, every region (x, 0, z) with
\* |x - c.x| <= r and |z - c.z| <= r, c the observer's region, is registered
\* in chunks, whatever the state before.
C11_ActivationComplete ==
    [][ LoadingStep =>
          LET c == from_world_pos(translation)
          IN  \A x \in c.x - RENDER_DISTANCE .. c.x + RENDER_DISTANCE :
                 \A z \in c.z - RENDER_DISTANCE .. c.z + RENDER_DISTANCE :
                    ChunkPos(x, 0, z) \in chunks'
      ]_vars

\* The observer has moved one chunk east and the loading call of that frame
\* has registered the far corner of the new neighbourhood
C11_Witness ==
    /\ app = "main"
    /\ last_load.called
    /\ last_load.camera_chunk_pos.x = 1
    /\ from_world_pos(translation).x = 1
    /\ ChunkPos(4, 0, 3) \in chunks
    /\ ChunkPos(-2, 0, -3) \in chunks

\* C12: when update_chunk_loading returns, every region that was active
\* before the call and lies outside the y = 0 Chebyshev neighbourhood of the
\* observer has neither a render identity in chunks nor block data in
\* chunk_data.
C12_DeactivationComplete ==
    [][ LoadingStep =>
          LET c == from_world_pos(translation)
          IN  \A p \in chunks :
                 ~InNeighbourhood(p, c, RENDER_DISTANCE)
                 => /\ ~(p \in chunks')
                    /\ ~(p \in DOMAIN chunk_data')
      ]_vars

\* C13: a call of update_chunk_loading that follows a call with the same
\* observer region leaves chunks as the first call left it, and queues no
\* spawn and no despawn.
C13_ActivationIdempotent ==
    [][ ( /\ LoadingStep
          /\ last_load.called
          /\ last_load.camera_chunk_pos = from_world_pos(translation) )
        => /\ chunks' = chunks
           /\ commands'.spawn = commands.spawn
           /\ commands'.despawn = commands.despawn
      ]_vars

\* The game's second frame with the observer still in the start region: the
\* 7 x 7 square is registered and the loading call has queued nothing
C13_Witness ==
    /\ app = "main"
    /\ last_load.called
    /\ last_load.camera_chunk_pos = from_world_pos(translation)
    /\ ~("update_chunk_loading" \in pending)
    /\ commands.spawn = {}
    /\ commands.despawn = {}
    /\ Cardinality(chunks) = (2 * RENDER_DISTANCE + 1) * (2 * RENDER_DISTANCE + 1)
    /\ Cardinality(entities.chunks) = Cardinality(chunks)

\* ------------------------------------------------------------------------
\* Coordinates
\* ------------------------------------------------------------------------

\* The point with world coordinates (x, 0, 0)
OnXAxis(x) == Vec3(x, 0, 0, 1)

\* from_world_pos has been applied to a point with world x = k
RegionProbedAt(k) ==
    /\ probe.op = "from_world_pos"
    /\ probe.pos.x = k * probe.pos.d

\* C14 as stated: world x = -1 and world x = -16 map to adjacent, not
\* identical, regions.
C14_AdjacentRegions ==
    RegionProbedAt(-16)
    => Abs(probe.result.x - from_world_pos(OnXAxis(-1)).x) = 1

\* C14 amended: world x = -1 and world x = -16 map to the same region -1,
\* the two ends of its extent [-16, 0); the adjacent regions are those of
\* world x = 0 (region 0) and world x = -17 (region -2).
C14_SameRegion ==
    /\ RegionProbedAt(-16) =>
          /\ probe.result.x = -1
          /\ probe.result.x = from_world_pos(OnXAxis(-1)).x
    /\ RegionProbedAt(-1) => probe.result.x = -1
    /\ RegionProbedAt(0) => probe.result.x = 0
    /\ RegionProbedAt(-17) => probe.result.x = -2

C14_Witness ==
    /\ RegionProbedAt(-16)
    /\ probe.result.x = -1

\* C15: every world point p lies in the extent of its region:
\* region_origin(region_of(p)) <= p < region_origin(region_of(p)) + 16 on
\* each axis; and for every world cell b the raycaster examines, the chunk
\* is floor(b / 16) and the local coordinate is in [0, 16) with
\* 16 * chunk + local = b on each axis.
C15_Partition ==
    /\ probe.op = "from_world_pos" =>
          LET p == probe.pos
              o == to_world_pos(probe.result)
          IN  \A a \in Axes :
                 /\ Comp(o, a) * p.d <= Comp(p, a) * o.d
                 /\ Comp(p, a) * o.d < (Comp(o, a) + CHUNK_SIZE * o.d) * p.d
    /\ cast.called =>
          \A i \in 1 .. Len(cast.examined) :
             LET b == cast.examined[i]
             IN  \A a \in Axes :
                    /\ 0 <= Comp(CellLocal(b), a)
                    /\ Comp(CellLocal(b), a) < CHUNK_SIZE
                    /\ CHUNK_SIZE * Comp(CellChunk(b), a)
                           + Comp(CellLocal(b), a) = Comp(b, a)

\* A point and a ray on the negative side of zero, beyond the first region
C15_Witness ==
    /\ probe.op = "from_world_pos"
    /\ probe.pos.x < -CHUNK_SIZE * probe.pos.d
    /\ probe.result.x = -2
    /\ cast.called
    /\ Len(cast.examined) > 1
    /\ cast.examined[1].x < -CHUNK_SIZE

\* ------------------------------------------------------------------------
\* Block storage
\* ------------------------------------------------------------------------

SetBlockStep == probe.op = "none" /\ probe'.op = "set_block"

GetBlockStep == probe.op = "none" /\ probe'.op = "get_block"

BuildMeshStep == probe.op = "none" /\ probe'.op = "build_mesh"

RaycastStep == ~cast.called /\ cast'.called

\* All components of a local position are below 16
AllBelow16(p) == p.x < 16 /\ p.y < 16 /\ p.z < 16

\* The local positions with all components in 0 .. 15
Below16Positions ==
    { BlockPos(x, y, z) : x \in 0 .. 15, y \in 0 .. 15, z \in 0 .. 15 }

\* C16: for every valid local position p and every block variant T,
\* set_block(p, T) followed by get_block(p) returns T, the value at every
\* other local position is unchanged, and the dirty flag is set.
C16_RoundTrip ==
    [][ (SetBlockStep /\ AllBelow16(probe'.pos)) =>
           LET before == chunk_data[Origin000]
               after  == chunk_data'[Origin000]
           IN  /\ get_block(after, probe'.pos) = probe'.block_type
               /\ \A q \in Below16Positions :
                     q # probe'.pos => get_block(after, q) = get_block(before, q)
               /\ after.dirty ]_vars

\* Air has been written over a Stone cell of the floor fixture
C16_Witness ==
    /\ probe.op = "set_block"
    /\ probe.pos = BlockPos(15, 0, 15)
    /\ probe.block_type = "Air"
    /\ get_block(chunk_data[Origin000], BlockPos(15, 0, 15)) = "Air"
    /\ get_block(chunk_data[Origin000], BlockPos(0, 0, 0)) = "Stone"
    /\ get_block(chunk_data[Origin000], BlockPos(15, 0, 0)) = "Stone"

\* The chunks handed to the raycaster, with an all-Air chunk added for
\* every region that a cell of the ray falls in and that is not among them
WithEmptyRegions(data, examined) ==
    [p \in DOMAIN data \cup {CellChunk(examined[i]) : i \in 1 .. Len(examined)}
       |-> IF p \in DOMAIN data THEN data[p] ELSE NewChunk(p)]

\* C17: get_block with a local coordinate having a component >= 16 returns
\* Air; set_block with such a coordinate leaves the block array unchanged;
\* get_block, set_block, the mesh builder and the raycaster never index the
\* blocks array at an index >= 4096; a ray cell in a region that is not
\* loaded is treated as Air: the ray's result is what it would be with an
\* all-Air chunk loaded there.
C17_TotalAccess ==
    [][ /\ (GetBlockStep /\ ~AllBelow16(probe'.pos)) => probe'.result = "Air"
        /\ (SetBlockStep /\ ~AllBelow16(probe'.pos)) =>
               chunk_data'[Origin000].blocks = chunk_data[Origin000].blocks
        /\ (GetBlockStep \/ SetBlockStep \/ BuildMeshStep) =>
               \A i \in probe'.indexed : 0 <= i /\ i < 4096
        /\ RaycastStep =>
               /\ \A i \in raycast_block_indexed(cast'.examined, chunk_data) :
                     0 <= i /\ i < 4096
               /\ cast'.hit =
                     raycast_block(translation, forward,
                         WithEmptyRegions(chunk_data, cast'.examined)).hit ]_vars

\* get_block has been called with the wrapped coordinate of -1, and a ray
\* has crossed cells of a region that is not loaded before its hit
C17_Witness ==
    /\ probe.op = "get_block"
    /\ probe.pos.x = USIZE_MODULUS - 1
    /\ probe.pos.y = 0
    /\ probe.result = "Air"
    /\ cast.called
    /\ cast.hit.some
    /\ ~(CellChunk(cast.examined[1]) \in DOMAIN chunk_data)

\* ------------------------------------------------------------------------
\* Mesh
\* ------------------------------------------------------------------------

\* The (cell, direction) pairs of a chunk that pass the visibility test
VisiblePairs(chunk) ==
    { pair \in Below16Positions \X {"PosY", "NegY", "PosZ", "NegZ", "PosX", "NegX"} :
        /\ get_block(chunk, pair[1]) # "Air"
        /\ should_render_face(chunk, pair[1], pair[2]) }

NonAirCells(chunk) ==
    { q \in Below16Positions : get_block(chunk, q) # "Air" }

\* C19: build_mesh emits exactly 4 vertices and 6 indices per (non-Air
\* cell, direction) pair that passes the visibility test; every index
\* refers to one of the 4 vertices of its own quad; an all-Air chunk yields
\* zero vertices and zero indices; a chunk with a single solid cell yields
\* 6 quads, 24 vertices and 36 indices.
C19_MeshSize ==
    probe.op = "build_mesh" =>
       LET chunk == chunk_data[Origin000]
           mesh  == probe.mesh
           n     == Cardinality(VisiblePairs(chunk))
           cells == NonAirCells(chunk)
       IN  /\ Len(mesh.positions) = 4 * n
           /\ Len(mesh.indices) = 6 * n
           /\ \A j \in 1 .. Len(mesh.indices) :
                 LET quad == (j - 1) \div 6
                 IN  /\ 4 * quad <= mesh.indices[j]
                     /\ mesh.indices[j] <= 4 * quad + 3
           /\ cells = {} =>
                 Len(mesh.positions) = 0 /\ Len(mesh.indices) = 0
           /\ (Cardinality(cells) = 1
                 /\ \A q \in cells : is_solid(get_block(chunk, q))) =>
                 /\ Len(mesh.quads) = 6
                 /\ Len(mesh.positions) = 24
                 /\ Len(mesh.indices) = 36

\* The mesh of a chunk whose single solid cell is in a corner of the chunk
C19_Witness ==
    /\ probe.op = "build_mesh"
    /\ NonAirCells(chunk_data[Origin000]) = {BlockPos(0, 0, 15)}
    /\ Len(probe.mesh.positions) = 24
    /\ Len(probe.mesh.indices) = 36

\* A sampled cell counts as solid: it is outside the chunk, or it is in the
\* chunk and not Air
SampledSolid(chunk, x, y, z) ==
    IF 0 <= x /\ x < 16 /\ 0 <= y /\ y < 16 /\ 0 <= z /\ z < 16
    THEN get_block(chunk, BlockPos(x, y, z)) # "Air"
    ELSE TRUE

\* The occlusion factor of C20, in tenths
AoTable(edge1, edge2, corner) ==
    IF edge1 /\ edge2 THEN 5
    ELSE IF corner /\ ~edge1 /\ ~edge2 THEN 7
    ELSE IF ~edge1 /\ ~edge2 /\ ~corner THEN 10
    ELSE 8

\* The three cells sampled for vertex i of a quad, as (edge1, edge2, corner)
Sampled(chunk, quad, i) ==
    LET a == AoCalls(quad.direction, quad.block_pos.x, quad.block_pos.y,
                     quad.block_pos.z)[i]
    IN  << SampledSolid(chunk, a.x + a.side1.x, a.y + a.side1.y,
                        a.z + a.side1.z),
           SampledSolid(chunk, a.x + a.side2.x, a.y + a.side2.y,
                        a.z + a.side2.z),
           SampledSolid(chunk, a.x + a.side1.x + a.side2.x,
                        a.y + a.side1.y + a.side2.y,
                        a.z + a.side1.z + a.side2.z) >>

\* C20: the occlusion factor of every vertex is 0.5 if both sampled edge
\* cells are solid, 0.7 if the corner is solid and both edges are empty,
\* 1.0 if none is solid, and 0.8 otherwise; cells outside the chunk count
\* as solid; the factor is one of 0.5, 0.7, 0.8, 1.0.
C20_OcclusionFactor ==
    probe.op = "build_mesh" =>
       \A q \in 1 .. Len(probe.mesh.quads) : \A i \in 1 .. 4 :
          LET quad == probe.mesh.quads[q]
              s    == Sampled(chunk_data[Origin000], quad, i)
          IN  /\ quad.ao_values[i] = AoTable(s[1], s[2], s[3])
              /\ quad.ao_values[i] \in {5, 7, 8, 10}

\* A mesh in which a vertex has a solid corner cell and two empty edge
\* cells, and other vertices have the factors 0.8 and 1.0
C20_Witness ==
    /\ probe.op = "build_mesh"
    /\ \E q \in 1 .. Len(probe.mesh.quads) : \E i \in 1 .. 4 :
          LET s == Sampled(chunk_data[Origin000], probe.mesh.quads[q], i)
          IN  ~s[1] /\ ~s[2] /\ s[3] /\ probe.mesh.quads[q].ao_values[i] = 7
    /\ \A f \in {8, 10} :
          \E q \in 1 .. Len(probe.mesh.quads) : \E i \in 1 .. 4 :
             probe.mesh.quads[q].ao_values[i] = f

\* ------------------------------------------------------------------------
\* The aiming gate
\* ------------------------------------------------------------------------

\* The schedule has run every system and the queued Commands are applied
FrameEndStep == pending = {} /\ pending' # {}

\* C18: when the targeting pass runs with the cursor lock false, after it
\* the target hit is none and no highlight entity remains (TargetedBlock
\* holds none, the despawn of the one it held is queued, and once the
\* frame's Commands are applied the World holds none); when the
\* interaction pass runs with the cursor lock false, or with no target
\* hit, block data, the region set and the queued Commands are unchanged.
C18_AimingGate ==
    [][ /\ (TargetingStep /\ ~cursor_state.locked) =>
               /\ targeted_block'.hit = NoHit
               /\ ~targeted_block'.highlight_entity
               /\ targeted_block.highlight_entity =>
                     commands'.despawn_highlight
        /\ (FrameEndStep /\ ~targeted_block.highlight_entity) =>
               entities'.highlights = 0
        /\ (InteractionStep
              /\ (~cursor_state.locked \/ ~targeted_block.hit.some)) =>
               /\ chunk_data' = chunk_data
               /\ chunks' = chunks
               /\ commands' = commands ]_vars

\* The cursor was unlocked while a block was highlighted: the targeting
\* pass has cleared the hit and queued the despawn of the highlight, and
\* the interaction pass has run as well
C18_Witness ==
    /\ app = "gate"
    /\ ~cursor_state.locked
    /\ pending = {}
    /\ entities.highlights = 1
    /\ commands.despawn_highlight
    /\ ~commands.spawn_highlight
    /\ targeted_block = [hit |-> NoHit, highlight_entity |-> FALSE]

\* ------------------------------------------------------------------------
\* Terrain
\* ------------------------------------------------------------------------

\* The integer terrain height and the biome value (in hundredths) of the
\* column of local (x, z) in the region p
ColumnHeight(generator, p, x, z) ==
    FloatAsUsize(get_height(generator, 16 * p.x + x, 16 * p.z + z), 10)

ColumnBiome(generator, p, x, z) ==
    get_biome_value(generator, 16 * p.x + x, 16 * p.z + z)

\* The column fill of C21 for terrain height h, biome b (hundredths) and
\* world height w
ColumnFill(h, b, w) ==
    IF w > h THEN "Air"
    ELSE IF w = h THEN (IF b > 60 THEN "Sand" ELSE "Grass")
    ELSE IF h > 3 /\ w >= h - 3 THEN "Dirt"
    ELSE "Stone"

\* C21: in a generated region (region y >= 0), the cell of column (x, z)
\* at world height w is Air if w > h; Sand if w = h and b > 0.6, Grass if
\* w = h and b <= 0.6; Dirt if h > 3 and w is 1, 2 or 3 below h; Stone for
\* every deeper cell and for every cell below the surface when h <= 3.
C21_ColumnFill ==
    \A p \in DOMAIN chunk_data :
       p.y >= 0 =>
          \A q \in Below16Positions :
             get_block(chunk_data[p], q) =
                ColumnFill(ColumnHeight(terrain_generator, p, q.x, q.z),
                           ColumnBiome(terrain_generator, p, q.x, q.z),
                           16 * p.y + q.y)

\* A region has been generated whose columns have height 15, with the
\* cell 3 below the surface in it
C21_Witness ==
    /\ app = "terrain"
    /\ terrain_generator = "flat"
    /\ ChunkPos(0, 0, 0) \in DOMAIN chunk_data
    /\ get_block(chunk_data[ChunkPos(0, 0, 0)], BlockPos(0, 15, 0)) = "Grass"
    /\ get_block(chunk_data[ChunkPos(0, 0, 0)], BlockPos(0, 12, 0)) = "Stone"

\* C29: a region at region y = -1 is generated with each cell's world
\* height -16 + local y: every cell lies below any terrain height h >= 0
\* and is non-Air, and the region's contents differ from those of the
\* region at y = 0 in the same column whenever that region contains Air.
C29_TrueWorldHeight ==
    \A p \in DOMAIN chunk_data :
       p.y = -1 =>
          /\ \A q \in Below16Positions : get_block(chunk_data[p], q) # "Air"
          /\ LET above == generate_terrain(NewChunk(ChunkPos(p.x, 0, p.z)),
                                           terrain_generator)
             IN  (\E q \in Below16Positions : get_block(above, q) = "Air")
                    => chunk_data[p].blocks # above.blocks

\* A region at y = -1 has been generated in a column whose terrain is
\* lower than 15, and its top cell is Air
C29_Witness ==
    /\ app = "terrain"
    /\ ChunkPos(0, -1, 0) \in DOMAIN chunk_data
    /\ get_block(chunk_data[ChunkPos(0, -1, 0)], BlockPos(1, 15, 0)) = "Air"

\* ------------------------------------------------------------------------
\* Faces and occlusion samples
\* ------------------------------------------------------------------------

\* The unit step of a face direction
DirectionStep(direction) ==
    IF direction = "PosY" THEN IVec(0, 1, 0)
    ELSE IF direction = "NegY" THEN IVec(0, -1, 0)
    ELSE IF direction = "PosZ" THEN IVec(0, 0, 1)
    ELSE IF direction = "NegZ" THEN IVec(0, 0, -1)
    ELSE IF direction = "PosX" THEN IVec(1, 0, 0)
    ELSE IVec(-1, 0, 0)

\* The cell in front of a face of the cell q
FrontCell(q, direction) ==
    IVec(q.x + DirectionStep(direction).x, q.y + DirectionStep(direction).y,
         q.z + DirectionStep(direction).z)

InsideRegion(c) ==
    /\ 0 <= c.x /\ c.x < 16
    /\ 0 <= c.y /\ c.y < 16
    /\ 0 <= c.z /\ c.z < 16

\* The neighbour in front of the face lies outside the region, or is Air,
\* or is transparent (Water)
FaceExposed(chunk, q, direction) ==
    LET n == FrontCell(q, direction)
    IN  \/ ~InsideRegion(n)
        \/ get_block(chunk, BlockPos(n.x, n.y, n.z)) \in {"Air", "Water"}

\* C22: for every cell and each of the 6 directions, a quad is emitted if
\* and only if the cell is not Air and the neighbouring cell in that
\* direction lies outside the region, or is Air, or is transparent; so a
\* solid cell on the region boundary emits its boundary face, and no face
\* is emitted between two opaque solid cells.
C22_FaceVisibility ==
    probe.op = "build_mesh" =>
       LET chunk   == chunk_data[Origin000]
           emitted == { <<probe.mesh.quads[k].block_pos,
                          probe.mesh.quads[k].direction>> :
                        k \in 1 .. Len(probe.mesh.quads) }
       IN  \A q \in Below16Positions :
              \A d \in {"PosY", "NegY", "PosZ", "NegZ", "PosX", "NegX"} :
                 (<<q, d>> \in emitted)
                    <=> (get_block(chunk, q) # "Air" /\ FaceExposed(chunk, q, d))

\* The mesh of a chunk in which a solid cell has Water above it, a solid
\* cell lies on the region boundary, or two opaque cells touch
C22_Witness ==
    /\ probe.op = "build_mesh"
    /\ get_block(chunk_data[Origin000], AoCell) = "Sand"
    /\ get_block(chunk_data[Origin000], BlockPos(7, 8, 7)) = "Water"
    /\ \E k \in 1 .. Len(probe.mesh.quads) :
          /\ probe.mesh.quads[k].block_pos = AoCell
          /\ probe.mesh.quads[k].direction = "PosY"
    /\ ~ \E k \in 1 .. Len(probe.mesh.quads) :
            /\ probe.mesh.quads[k].block_pos = BlockPos(7, 8, 7)
            /\ probe.mesh.quads[k].direction = "NegY"

\* The cells of the layer in front of a face that touch the vertex v (a
\* lattice point of that layer's near side), other than the cell directly
\* in front of the face
CellsAtVertex(q, direction, v) ==
    LET n == DirectionStep(direction)
        f == FrontCell(q, direction)
    IN  { c \in { IVec(x, y, z) : x \in (v[1] - 1) .. v[1],
                                  y \in (v[2] - 1) .. v[2],
                                  z \in (v[3] - 1) .. v[3] } :
            /\ n.x # 0 => c.x = f.x
            /\ n.y # 0 => c.y = f.y
            /\ n.z # 0 => c.z = f.z } \ {f}

\* The three cells calculate_ao samples for vertex i of a quad
SampledCells(quad, i) ==
    LET a == AoCalls(quad.direction, quad.block_pos.x, quad.block_pos.y,
                     quad.block_pos.z)[i]
    IN  { IVec(a.x + a.side1.x, a.y + a.side1.y, a.z + a.side1.z),
          IVec(a.x + a.side2.x, a.y + a.side2.y, a.z + a.side2.z),
          IVec(a.x + a.side1.x + a.side2.x, a.y + a.side1.y + a.side2.y,
               a.z + a.side1.z + a.side2.z) }

\* C23: for each face direction and each of the four vertices of an
\* emitted quad, the three cells sampled for the vertex's occlusion are
\* exactly the three cells, other than the cell directly in front of the
\* face, among the four cells of the layer in front of the face that share
\* the vertex.
C23_SamplesTouchVertex ==
    probe.op = "build_mesh" =>
       \A k \in 1 .. Len(probe.mesh.quads) : \A i \in 1 .. 4 :
          LET quad == probe.mesh.quads[k]
          IN  SampledCells(quad, i)
                 = CellsAtVertex(quad.block_pos, quad.direction,
                                 quad.positions[i])

\* A top face has been emitted whose first vertex is sampled at the cells
\* that touch it
C23_Witness ==
    /\ probe.op = "build_mesh"
    /\ \E k \in 1 .. Len(probe.mesh.quads) :
          /\ probe.mesh.quads[k].block_pos = AoCell
          /\ probe.mesh.quads[k].direction = "PosY"
          /\ SampledCells(probe.mesh.quads[k], 1)
                = {IVec(7, 8, 6), IVec(6, 8, 7), IVec(6, 8, 6)}
          /\ CellsAtVertex(AoCell, "PosY", probe.mesh.quads[k].positions[1])
                = {IVec(7, 8, 6), IVec(6, 8, 7), IVec(6, 8, 6)}

\* C30: making one more of the three sampled cells solid never raises the
\* occlusion factor of the vertex.
C30_Monotone ==
    probe.op = "build_mesh" =>
       \A k \in 1 .. Len(probe.mesh.quads) : \A i \in 1 .. 4 :
          LET quad  == probe.mesh.quads[k]
              chunk == chunk_data[Origin000]
              a     == AoCalls(quad.direction, quad.block_pos.x,
                               quad.block_pos.y, quad.block_pos.z)[i]
          IN  \A c \in SampledCells(quad, i) :
                 (InsideRegion(c)
                    /\ get_block(chunk, BlockPos(c.x, c.y, c.z)) = "Air") =>
                    calculate_ao(set_block(chunk, BlockPos(c.x, c.y, c.z),
                                           "Stone"),
                                 a.x, a.y, a.z, a.side1, a.side2)
                       <= quad.ao_values[i]

\* A vertex whose corner cell alone is solid has the factor 0.7, and 0.8
\* with one edge cell made solid as well
C30_Witness ==
    /\ probe.op = "build_mesh"
    /\ \E k \in 1 .. Len(probe.mesh.quads) :
          LET quad == probe.mesh.quads[k]
          IN  /\ quad.block_pos = AoCell
              /\ quad.direction = "PosY"
              /\ quad.ao_values[1] = 7
              /\ calculate_ao(set_block(chunk_data[Origin000], AoCells[1],
                                        "Stone"),
                              7, 8, 7, IVec(0, 0, -1), IVec(-1, 0, 0)) = 8

\* ------------------------------------------------------------------------
\* The normal of a hit
\* ------------------------------------------------------------------------

UnitAxisVectors ==
    { IVec(1, 0, 0), IVec(-1, 0, 0), IVec(0, 1, 0), IVec(0, -1, 0),
      IVec(0, 0, 1), IVec(0, 0, -1) }

\* C24: every hit returned by raycast_block, for every origin (an origin
\* inside a non-Air cell included) and direction, carries a normal that is
\* one of the six unit axis vectors, the negation of the step direction on
\* the axis it lies on; the normal is never the zero vector.
C24_UnitNormal ==
    (cast.called /\ cast.hit.some) =>
       /\ cast.hit.normal \in UnitAxisVectors
       /\ cast.hit.normal
             \in { StepNormal(forward, a) : a \in {"x", "y", "z"} }

\* A ray cast from inside a Stone cell of the floor has returned that cell
C24_Witness ==
    /\ cast.called /\ cast.hit.some
    /\ translation = Vec3(10, 1, 10, 2)
    /\ get_block(chunk_data[Origin000], BlockPos(5, 0, 5)) = "Stone"
    /\ cast.hit.block_pos = BlockPos(5, 0, 5)
    /\ Len(cast.examined) = 1

\* ------------------------------------------------------------------------
\* Place: the destination region
\* ------------------------------------------------------------------------

\* C25: after a place request with a current hit, the destination cell
\* holds the selected variant.  A destination region that is not loaded is
\* first generated by the terrain generator as in activation, registered
\* with block data and a render identity (an entry of chunks and a queued
\* spawn), and then written; a region that is active already has the write
\* applied to its block data.  The destination is the one the place path
\* computes (new_chunk_pos, new_block_pos).
C25_PlacePostcondition ==
    [][ PlaceOnlyStep =>
          LET target  == PlaceTarget(targeted_block.hit)
              variant == KeyVariant(input')
          IN  /\ target.chunk_pos \in DOMAIN chunk_data'
              /\ target.chunk_pos \in chunks'
              /\ get_block(chunk_data'[target.chunk_pos], target.block_pos)
                    = variant
              /\ IF target.chunk_pos \in chunks
                 THEN /\ target.chunk_pos \in DOMAIN chunk_data
                      /\ chunk_data'[target.chunk_pos]
                            = set_block(chunk_data[target.chunk_pos],
                                        target.block_pos, variant)
                      /\ chunks' = chunks
                      /\ commands'.spawn = commands.spawn
                 ELSE /\ chunk_data'[target.chunk_pos]
                            = set_block(
                                 generate_terrain(NewChunk(target.chunk_pos),
                                                  terrain_generator),
                                 target.block_pos, variant)
                      /\ chunks' = chunks \cup {target.chunk_pos}
                      /\ commands'.spawn
                            = commands.spawn \cup {target.chunk_pos}
    ]_vars

\* A place has created the region (-1, 0, 0), which holds generated terrain
\* and the placed block, and another place has written into the loaded
\* region
C25_Witness ==
    /\ app = "test"
    /\ input.right /\ ~input.left
    /\ ChunkPos(-1, 0, 0) \in chunks
    /\ ChunkPos(-1, 0, 0) \in commands.spawn
    /\ get_block(chunk_data[ChunkPos(-1, 0, 0)], BlockPos(15, 1, 5))
          = SelectedBlock(input)
    /\ get_block(chunk_data[ChunkPos(-1, 0, 0)], BlockPos(0, 0, 0)) # "Air"

\* ------------------------------------------------------------------------
\* Order of the systems within a tick
\* ------------------------------------------------------------------------

\* C26: under every order the schedule allows for block_targeting_system
\* and block_interaction_system, whenever a break or a place executes, the
\* targeted hit cell is non-Air in the current block data of a loaded
\* region (the hit is never stale).
C26_HitNeverStale ==
    [][ ( /\ InteractionStep
          /\ cursor_state.locked
          /\ targeted_block.hit.some
          /\ (input'.left \/ input'.right) )
        => /\ targeted_block.hit.chunk_pos \in chunks
           /\ targeted_block.hit.chunk_pos \in DOMAIN chunk_data
           /\ get_block(chunk_data[targeted_block.hit.chunk_pos],
                        targeted_block.hit.block_pos) # "Air"
    ]_vars

\* A second request has been made in a later tick on the hit of the tick
\* before, whose cell the first request had emptied
C26_Witness ==
    /\ app = "gate"
    /\ clicks = 2
    /\ input.left
    /\ "block_targeting_system" \in pending
    /\ targeted_block.hit.some
    /\ get_block(chunk_data[targeted_block.hit.chunk_pos],
                 targeted_block.hit.block_pos) = "Air"

\* ------------------------------------------------------------------------
\* Place: the cell written
\* ------------------------------------------------------------------------

\* The block data the place path writes into: that of the destination
\* region when it is loaded, freshly generated terrain when it is not
DestinationBefore(target) ==
    IF target.chunk_pos \in chunks
    THEN chunk_data[target.chunk_pos]
    ELSE generate_terrain(NewChunk(target.chunk_pos), terrain_generator)

\* C27: place never destroys an existing block: the cell written by a
\* place was Air immediately before the write; place never overwrites the
\* hit cell itself nor a non-Air cell of a freshly generated destination
\* region.
C27_PlaceIntoAir ==
    [][ ( /\ PlaceOnlyStep
          /\ PlaceTarget(targeted_block.hit).chunk_pos \in DOMAIN chunk_data' )
        => LET target == PlaceTarget(targeted_block.hit)
           IN  /\ get_block(DestinationBefore(target), target.block_pos)
                     = "Air"
               /\ ~ ( /\ target.chunk_pos = targeted_block.hit.chunk_pos
                      /\ target.block_pos = targeted_block.hit.block_pos )
    ]_vars

\* A place on the +x face of the floor's rim has created the region
\* (1, 0, 0) and put the selected block where its generated terrain had a
\* solid cell
C27_Witness ==
    /\ app = "test"
    /\ input.right /\ ~input.left
    /\ targeted_block.hit.some
    /\ targeted_block.hit.block_pos = BlockPos(15, 0, 5)
    /\ targeted_block.hit.normal = IVec(1, 0, 0)
    /\ ChunkPos(1, 0, 0) \in chunks
    /\ get_block(generate_terrain(NewChunk(ChunkPos(1, 0, 0)),
                                  terrain_generator),
                 BlockPos(0, 0, 5)) # "Air"
    /\ get_block(chunk_data[ChunkPos(1, 0, 0)], BlockPos(0, 0, 5))
          = SelectedBlock(input)

\* ------------------------------------------------------------------------
\* The dirty flag
\* ------------------------------------------------------------------------

\* C28: the dirty flag tracks pending rebuilds: after a region's creation
\* with its first mesh build, and after every break or place (each of
\* which rebuilds the mesh at once), the affected chunk's dirty flag is
\* false.
C28_DirtyCleared ==
    [][ /\ ( /\ BreakOnlyStep
             /\ targeted_block.hit.chunk_pos \in chunks
             /\ targeted_block.hit.chunk_pos \in DOMAIN chunk_data )
           => ~chunk_data'[targeted_block.hit.chunk_pos].dirty
        /\ ( /\ PlaceOnlyStep
             /\ PlaceTarget(targeted_block.hit).chunk_pos
                   \in DOMAIN chunk_data' )
           => ~chunk_data'[PlaceTarget(targeted_block.hit).chunk_pos].dirty
    ]_vars

\* A break has emptied the hit cell and rebuilt the mesh, and the chunk is
\* still marked dirty
C28_Witness ==
    /\ app = "test"
    /\ input.left /\ ~input.right
    /\ targeted_block.hit.some
    /\ targeted_block.hit.chunk_pos = Origin000
    /\ get_block(chunk_data[Origin000], targeted_block.hit.block_pos) = "Air"
    /\ chunk_data[Origin000].dirty

====
